---------------------------- MODULE Spec2Model ----------------------------
(***************************************************************************)
(* State-machine model of the two simulation engines of EngineMock:        *)
(*                                                                         *)
(*   motor_engine.cpp           the single-motor engine (one MotorState,   *)
(*                              an update-coalescing flag)                 *)
(*   enhanced_motor_engine.cpp  the multi-machine engine (17 machines,     *)
(*                              9 edge nodes, 6 ML models)                 *)
(*                                                                         *)
(* Both engines export the same C symbols and are alternative builds, so   *)
(* each has its own specification: SpecMotor and SpecEnh.                  *)
(*                                                                         *)
(* Numbers.  The code computes in IEEE doubles; the model computes in      *)
(* fixed point, every quotient truncated toward zero (Quot):               *)
(*   speeds             1/1000 rpm          temperatures   1/1000 degC     *)
(*   percentages        1/1000 %            load           1/1000          *)
(*   vibration          1/1000 mm/s         power          1/1000 kW       *)
(*   single motor: bearingWear, oilDegradation in 1e-6, hours in 1/1000 h  *)
(*   machines:     bearingWear, oilDegradation in 1e-9, hours in seconds   *)
(* sin is the Bhaskara rational approximation (error below 0.002).         *)
(***************************************************************************)
EXTENDS Integers, Sequences, FiniteSets, TLC

VARIABLES
    \* ---- single-motor engine (motor_engine.cpp) ----
    motor,                      \* static MotorState motor
    initialized,                \* static bool initialized
    physicsUpdatedThisReading,  \* static bool physicsUpdatedThisReading
    elapsed,                    \* steady_clock::now() - startTime, in seconds
    ret,                        \* the last API call of the caller and what it returned
    seen,                       \* one accessor return of the current tick, kept for comparison
    passes,                     \* full physics passes run since the last ResetPhysicsUpdateFlag
    called,                     \* an accessor or Start/Stop call was made since the last reset
    ticks,                      \* ResetPhysicsUpdateFlag calls made so far
    gen,                        \* the values of gen() the last calculation applied on its own drew
    threads,                    \* where each of two concurrent callers is in its accessor call
    \* ---- multi-machine engine (enhanced_motor_engine.cpp) ----
    industrialMachines,         \* static std::vector<MachineState>
    edgeNodes,                  \* static std::vector<EdgeNode>
    mlModels,                   \* static std::vector<MLModel>
    systemInitialized,          \* static bool systemInitialized
    eret,                       \* the last API call and what it did
    budget                      \* API calls the caller still makes

motorVars == <<motor, initialized, physicsUpdatedThisReading, elapsed,
               ret, seen, passes, called, ticks, gen, threads>>
enhVars   == <<industrialMachines, edgeNodes, mlModels, systemInitialized,
               eret, budget>>
vars      == <<motor, initialized, physicsUpdatedThisReading, elapsed,
               ret, seen, passes, called, ticks, gen, threads,
               industrialMachines, edgeNodes, mlModels, systemInitialized,
               eret, budget>>

---------------------------------------------------------------------------
(* Bounds of the model                                                     *)

\* ResetPhysicsUpdateFlag calls explored by SpecMotor
MaxTicks == 1
\* API calls explored by SpecEnh
MaxCalls == 3
\* API calls explored by SpecDrive
MaxDriveCalls == 4
\* API calls explored by SpecIndexed
MaxIndexedCalls == 2
\* Calculations applied by SpecStrata
MaxStrataCalls == 1
\* Accessor calls made by the two threads of SpecThreads
MaxThreadCalls == 2
\* ResetPhysicsUpdateFlag calls explored by SpecWear
MaxWearTicks == 44

---------------------------------------------------------------------------
(* Fixed-point helpers                                                     *)

Min(a, b) == IF b < a THEN b ELSE a
Max(a, b) == IF a < b THEN b ELSE a
Abs(a)    == IF a < 0 THEN -a ELSE a

\* a / b for b > 0, truncated toward zero
Quot(a, b) == IF a >= 0 THEN a \div b ELSE -((-a) \div b)

\* std::max(lo, std::min(hi, x))
Clamp(lo, hi, x) == Max(lo, Min(hi, x))

\* sin of x milliradians, in 1/1000: Bhaskara's approximation on [0, pi]
SinHalf(x) ==
    LET p == x * (3142 - x)
    IN  Quot(16 * p, Quot(49360820 - 4 * p, 1000))

SinMilli(x) ==
    LET r == x % 6283
    IN  IF r <= 3142 THEN SinHalf(r) ELSE -SinHalf(Min(r - 3142, 3142))

RECURSIVE SqrtSearch(_, _, _)
SqrtSearch(n, lo, hi) ==
    IF lo >= hi THEN lo
    ELSE LET mid == (lo + hi + 1) \div 2
         IN  IF mid * mid <= n THEN SqrtSearch(n, mid, hi)
                               ELSE SqrtSearch(n, lo, mid - 1)

\* floor(sqrt(n)) for 0 <= n < 2^30
ISqrt(n) == SqrtSearch(n, 0, 32767)

---------------------------------------------------------------------------
(* Single-motor engine: motor_engine.cpp                                   *)

BASE_SPEED       == 2500000
BASE_TEMPERATURE == 65000

\* A percentage clamped as std::max(0.0, std::min(100.0, x))
Pct(x) == Clamp(0, 100000, x)

\* gen() % n - k is computed in the unsigned type of gen(): a residue below
\* k wraps around to a value near 2^32 or 2^64.  The wrapped value only ever
\* meets a clamp, so it is kept as a number beyond every clamp of the engine.
UnsignedWrap == 2000000000

UnsignedDiff(g, n, k) == IF g % n < k THEN UnsignedWrap ELSE (g % n) - k

MotorFields ==
    { "speed", "temperature", "efficiency", "powerConsumption", "vibration",
      "load", "bearingWear", "oilDegradation", "operatingHours",
      "vibrationX", "vibrationY", "vibrationZ",
      "oilPressure", "airPressure", "hydraulicPressure",
      "coolantFlowRate", "fuelFlowRate", "voltage", "current", "powerFactor",
      "rpm", "torque", "humidity", "ambientTemperature", "ambientPressure",
      "shaftPosition", "displacement",
      "strainGauge1", "strainGauge2", "strainGauge3",
      "soundLevel", "bearingHealth", "maintenanceStatus", "systemHealth",
      "hvacEfficiency", "energySavings", "comfortLevel", "airQuality",
      "fuelEfficiency", "engineHealth", "batteryLevel", "tirePressure",
      "boatEngineEfficiency", "bladeSharpness", "fuelLevel",
      "generatorPowerOutput", "generatorFuelEfficiency",
      "poolPumpFlowRate", "poolPumpEnergyUsage",
      "washingMachineEfficiency", "dishwasherEfficiency",
      "refrigeratorEfficiency", "airConditionerEfficiency",
      "machineCount", "isRunning", "smartDevices", "boatEngineHours" }

\* static MotorState motor: static storage, zero before InitializeMotor
ZeroMotor == [f \in MotorFields |-> IF f = "isRunning" THEN FALSE ELSE 0]

SeededMotor ==
    [ZeroMotor EXCEPT
        !.speed = BASE_SPEED, !.temperature = BASE_TEMPERATURE,
        !.efficiency = 92000, !.powerConsumption = 4500, !.vibration = 1500,
        !.load = 700, !.bearingWear = 20000, !.oilDegradation = 10000,
        !.operatingHours = 280000,
        !.vibrationX = 1000, !.vibrationY = 1200, !.vibrationZ = 800,
        !.oilPressure = 3500, !.airPressure = 8000, !.hydraulicPressure = 150000,
        !.coolantFlowRate = 20000, !.fuelFlowRate = 12000,
        !.voltage = 230000, !.current = 20000, !.powerFactor = 920,
        !.rpm = BASE_SPEED, !.torque = 50000,
        !.humidity = 45000, !.ambientTemperature = 22000, !.ambientPressure = 101325,
        !.shaftPosition = 0, !.displacement = 100,
        !.strainGauge1 = 100000, !.strainGauge2 = 150000, !.strainGauge3 = 200000,
        !.soundLevel = 70000, !.bearingHealth = 95000,
        !.maintenanceStatus = 0, !.systemHealth = 90,
        !.hvacEfficiency = 85000, !.energySavings = 75000,
        !.comfortLevel = 90000, !.airQuality = 95000,
        !.fuelEfficiency = 88000, !.engineHealth = 92000,
        !.batteryLevel = 95000, !.tirePressure = 98000,
        !.boatEngineEfficiency = 82000, !.bladeSharpness = 95000, !.fuelLevel = 85000,
        !.generatorPowerOutput = 3200, !.generatorFuelEfficiency = 85000,
        !.poolPumpFlowRate = 15000, !.poolPumpEnergyUsage = 2800,
        !.washingMachineEfficiency = 90000, !.dishwasherEfficiency = 88000,
        !.refrigeratorEfficiency = 92000, !.airConditionerEfficiency = 80000,
        !.machineCount = 17, !.isRunning = TRUE,
        !.smartDevices = 12, !.boatEngineHours = 224]

\* Variant: the seeds are stored again on every call
InitializeMotorAgain(m, init) == SeededMotor

\* InitializeMotor(): seeds the motor on the first call only
InitializeMotor(m, init) == IF init THEN m ELSE SeededMotor

\* ---- the draws of one pass: one residue-free value of gen() per call site
DrawNames ==
    { "loadRand", "scenario", "speedRand", "speedBias",
      "thermalScenario", "randomHeat", "scenarioTemp", "tempDistribution", "tempResample",
      "effScenario", "effRand", "effScenarioVar", "effDistribution", "effResample",
      "vibScenario", "imbalance", "vibRand", "vibScenarioVar", "vibDistribution",
      "vibResample", "axisX", "axisY", "axisZ" }

\* CalculateLoad(): the load it stores is overwritten by CalculateSpeed
CalculateLoad(m, d) ==
    LET timeLoad   == Quot(SinMilli(Quot(m.operatingHours * 6, 100)) * 2, 10)
        randomLoad == UnsignedDiff(d.loadRand, 200, 100)
        newLoad    == Clamp(100, 1000, 700 + timeLoad + randomLoad)
    IN  [m EXCEPT !.load = newLoad]

\* The eight operating scenarios: baseSpeed (rpm), operatingLoad (1/1000),
\* ambientTemp (degC), timeOfDay (h), seasonalFactor (1/1000)
SpeedScenario(k) ==
    CASE k = 0 -> [baseSpeed |-> 2400, operatingLoad |-> 850, ambientTemp |-> 25, timeOfDay |-> 14, seasonalFactor |-> 1000]
      [] k = 1 -> [baseSpeed |-> 2600, operatingLoad |-> 650, ambientTemp |-> 35, timeOfDay |-> 10, seasonalFactor |-> 1100]
      [] k = 2 -> [baseSpeed |-> 2500, operatingLoad |-> 750, ambientTemp |-> 20, timeOfDay |-> 2,  seasonalFactor |-> 950]
      [] k = 3 -> [baseSpeed |-> 2200, operatingLoad |-> 450, ambientTemp |-> 30, timeOfDay |-> 8,  seasonalFactor |-> 1050]
      [] k = 4 -> [baseSpeed |-> 2800, operatingLoad |-> 900, ambientTemp |-> 40, timeOfDay |-> 16, seasonalFactor |-> 900]
      [] k = 5 -> [baseSpeed |-> 2300, operatingLoad |-> 550, ambientTemp |-> 15, timeOfDay |-> 22, seasonalFactor |-> 1150]
      [] k = 6 -> [baseSpeed |-> 2550, operatingLoad |-> 700, ambientTemp |-> 45, timeOfDay |-> 6,  seasonalFactor |-> 850]
      [] OTHER -> [baseSpeed |-> 2700, operatingLoad |-> 800, ambientTemp |-> 50, timeOfDay |-> 18, seasonalFactor |-> 1200]

CalculateSpeed(m, d) ==
    LET sc == SpeedScenario(d.scenario % 8)
        loadEffect        == (sc.operatingLoad - 500) * 200
        ambientEffect     == (sc.ambientTemp - 30) * 1000
        timeEffect        == SinMilli(sc.timeOfDay * 260) * 100
        seasonalEffect    == (sc.seasonalFactor - 1000) * 150
        wearEffect        == Quot(m.bearingWear, 20)
        maintenanceEffect == Quot(m.oilDegradation * 3, 100)
        rv                == UnsignedDiff(d.speedRand, 400, 200)
        randomVariation   == IF rv = UnsignedWrap THEN rv ELSE rv * 1000
        raw     == sc.baseSpeed * 1000 + loadEffect + ambientEffect + timeEffect
                   + seasonalEffect - wearEffect - maintenanceEffect + randomVariation
        clamped == Clamp(2000000, 3000000, raw)
        newSpeed == IF clamped > 2950000 THEN 2950000 + (d.speedBias % 50) * 1000
                    ELSE IF clamped < 2050000 THEN 2050000 + (d.speedBias % 50) * 1000
                    ELSE clamped
    IN  [m EXCEPT !.speed = newSpeed, !.rpm = newSpeed, !.load = sc.operatingLoad]

\* The six thermal scenarios: baseTemp, ambientTemp (degC),
\* coolingEfficiency, thermalMass (1/100)
ThermalScenario(k) ==
    CASE k = 0 -> [baseTemp |-> 35, ambientTemp |-> 20, coolingEfficiency |-> 80, thermalMass |-> 100]
      [] k = 1 -> [baseTemp |-> 30, ambientTemp |-> 15, coolingEfficiency |-> 90, thermalMass |-> 120]
      [] k = 2 -> [baseTemp |-> 40, ambientTemp |-> 25, coolingEfficiency |-> 70, thermalMass |-> 80]
      [] k = 3 -> [baseTemp |-> 45, ambientTemp |-> 30, coolingEfficiency |-> 60, thermalMass |-> 150]
      [] k = 4 -> [baseTemp |-> 50, ambientTemp |-> 25, coolingEfficiency |-> 75, thermalMass |-> 130]
      [] OTHER -> [baseTemp |-> 55, ambientTemp |-> 35, coolingEfficiency |-> 65, thermalMass |-> 90]

\* The thermal computation of CalculateTemperature before the resample
PhysicsTemperature(m, d) ==
    LET sc == ThermalScenario(d.thermalScenario % 6)
        speedHeat   == Quot(m.speed, 2500) - 1000
        loadHeat    == Quot((m.load - 500) * 3, 2)
        ambientHeat == (sc.ambientTemp - 30) * 100
        wearHeat    == Quot(m.bearingWear * 2, 1000)
        oilHeat     == Quot(m.oilDegradation, 1000)
        rh          == UnsignedDiff(d.randomHeat, 1000, 500)
        scenarioTempVariation == (d.scenarioTemp % 200) * 100
        sum    == sc.baseTemp * 1000 + speedHeat + loadHeat + ambientHeat + wearHeat
                  + oilHeat + rh * 50 + scenarioTempVariation
        cooled == Quot(Quot(sum * 1000, 1000 + sc.coolingEfficiency * 8) * 100,
                       sc.thermalMass * 2)
    IN  IF rh = UnsignedWrap THEN 95000 ELSE Clamp(45000, 95000, cooled)

\* Variant: the first band ends at selector 60
StratifiedTemperatureAt60(physics, d) ==
    LET tempDistribution == d.tempDistribution % 100
    IN  IF tempDistribution < 60 THEN 60000 + (d.tempResample % 200) * 100
        ELSE IF tempDistribution < 90 THEN 80000 + (d.tempResample % 100) * 100
        ELSE 90000 + (d.tempResample % 50) * 100

\* The 70 / 20 / 10 resample that replaces the computed temperature
StratifiedTemperature(physics, d) ==
    LET tempDistribution == d.tempDistribution % 100
    IN  IF tempDistribution < 70 THEN 60000 + (d.tempResample % 200) * 100
        ELSE IF tempDistribution < 90 THEN 80000 + (d.tempResample % 100) * 100
        ELSE 90000 + (d.tempResample % 50) * 100

CalculateTemperature(m, d) ==
    LET newTemp == StratifiedTemperature(PhysicsTemperature(m, d), d)
    IN  [m EXCEPT !.temperature = newTemp,
                  !.ambientTemperature = ThermalScenario(d.thermalScenario % 6).ambientTemp * 1000]

\* The five efficiency scenarios: baseEfficiency, loadEfficiency (1/1000 %),
\* tempLoss (1/100 per degC), speedLoss (1/10)
EfficiencyScenario(k) ==
    CASE k = 0 -> [baseEfficiency |-> 85000, loadEfficiency |-> 0,     tempLoss |-> 5,  speedLoss |-> 8]
      [] k = 1 -> [baseEfficiency |-> 82000, loadEfficiency |-> -1000, tempLoss |-> 8,  speedLoss |-> 12]
      [] k = 2 -> [baseEfficiency |-> 79000, loadEfficiency |-> -2000, tempLoss |-> 12, speedLoss |-> 15]
      [] k = 3 -> [baseEfficiency |-> 73000, loadEfficiency |-> -3000, tempLoss |-> 15, speedLoss |-> 20]
      [] OTHER -> [baseEfficiency |-> 81000, loadEfficiency |-> 500,   tempLoss |-> 6,  speedLoss |-> 6]

\* The IEEE-112 style computation of CalculateEfficiency before the resample
PhysicsEfficiency(m, d) ==
    LET sc == EfficiencyScenario(d.effScenario % 5)
        loadEffect == IF m.load < 400 THEN -8000
                      ELSE IF m.load < 600 THEN -4000
                      ELSE IF m.load < 800 THEN 0
                      ELSE -3000
        tempEffect  == Quot((m.temperature - 70000) * sc.tempLoss, 100)
        speedEffect == Quot((Quot(m.speed, 2500) - 1000) * sc.speedLoss, 10)
        ageLoss     == Quot(m.operatingHours, 2000)
        bearingLoss == Quot(m.bearingWear * 8, 1000)
        oilLoss     == Quot(m.oilDegradation * 4, 1000)
        rv          == UnsignedDiff(d.effRand, 600, 300)
        scenarioEfficiencyVariation == (d.effScenarioVar % 200) * 10
        sum == sc.baseEfficiency + sc.loadEfficiency + loadEffect - tempEffect
               - speedEffect - ageLoss - bearingLoss - oilLoss + rv * 10
               + scenarioEfficiencyVariation
    IN  IF rv = UnsignedWrap THEN 94000 ELSE Clamp(70000, 94000, sum)

\* Variant: the resample is missing and the computed efficiency is stored
StratifiedEfficiencyKept(physics, d) == physics

\* The 70 / 20 / 10 resample that replaces the computed efficiency
StratifiedEfficiency(physics, d) ==
    LET effDistribution == d.effDistribution % 100
    IN  IF effDistribution < 70 THEN 80000 + (d.effResample % 1500) * 10
        ELSE IF effDistribution < 90 THEN 75000 + (d.effResample % 500) * 10
        ELSE 70000 + (d.effResample % 500) * 10

CalculateEfficiency(m, d) ==
    [m EXCEPT !.efficiency = StratifiedEfficiency(PhysicsEfficiency(m, d), d)]

CalculatePowerConsumption(m) ==
    LET speedPower      == Quot(m.speed * 2, 2500) - 2000
        loadPower       == Quot((m.load - 500) * 3, 2)
        efficiencyPower == Quot(100000 - m.efficiency, 10)
        tempPower       == Quot(m.temperature - BASE_TEMPERATURE, 20)
        timePower       == SinMilli(Quot(m.operatingHours * 8, 100))
        newPower == 4500 + speedPower + loadPower + efficiencyPower + tempPower + timePower
    IN  [m EXCEPT !.powerConsumption = Clamp(1000, 15000, newPower)]

\* The six vibration scenarios: baseVibration (1/1000 mm/s), speedFactor,
\* loadFactor, bearingFactor (1/10), tempFactor (1/100)
VibrationScenario(k) ==
    CASE k = 0 -> [baseVibration |-> 500,  speedFactor |-> 3,  loadFactor |-> 4,  tempFactor |-> 2, bearingFactor |-> 5]
      [] k = 1 -> [baseVibration |-> 1000, speedFactor |-> 5,  loadFactor |-> 6,  tempFactor |-> 3, bearingFactor |-> 10]
      [] k = 2 -> [baseVibration |-> 2000, speedFactor |-> 8,  loadFactor |-> 8,  tempFactor |-> 5, bearingFactor |-> 20]
      [] k = 3 -> [baseVibration |-> 1200, speedFactor |-> 12, loadFactor |-> 4,  tempFactor |-> 4, bearingFactor |-> 12]
      [] k = 4 -> [baseVibration |-> 800,  speedFactor |-> 4,  loadFactor |-> 10, tempFactor |-> 3, bearingFactor |-> 8]
      [] OTHER -> [baseVibration |-> 600,  speedFactor |-> 3,  loadFactor |-> 3,  tempFactor |-> 8, bearingFactor |-> 6]

\* The mechanical computation of CalculateVibration before the resample
PhysicsVibration(m, d) ==
    LET sc == VibrationScenario(d.vibScenario % 6)
        sr == Quot(m.speed, 2500)
        speedVibration    == Quot(Quot(sr * sr, 1000) * sc.speedFactor, 20)
        loadVibration     == Quot((m.load - 500) * sc.loadFactor, 20)
        tempVibration     == Quot((m.temperature - 70000) * sc.tempFactor, 200)
        bearingVibration  == Quot(m.bearingWear * sc.bearingFactor, 20000)
        imbalanceFactor   == 900 + (d.imbalance % 20) * 10
        imbalanceVibration == Quot((imbalanceFactor - 1000) * 4, 10)
        resonanceEffect   == IF m.speed > 2400000 /\ m.speed < 2600000 THEN 100 ELSE 0
        rv                == UnsignedDiff(d.vibRand, 600, 300)
        scenarioVariation == (d.vibScenarioVar % 100) * 10
        sum == sc.baseVibration + speedVibration + loadVibration + tempVibration
               + bearingVibration + imbalanceVibration + resonanceEffect + rv * 10
               + scenarioVariation
    IN  IF rv = UnsignedWrap THEN 7000 ELSE Clamp(500, 7000, sum)

\* The 70 / 20 / 10 resample that replaces the computed vibration
StratifiedVibration(physics, d) ==
    LET vibDistribution == d.vibDistribution % 100
    IN  IF vibDistribution < 70 THEN 2000 + (d.vibResample % 250) * 10
        ELSE IF vibDistribution < 90 THEN 4500 + (d.vibResample % 150) * 10
        ELSE 6000 + (d.vibResample % 100) * 10

\* One axis: baseAxisVibration * (0.9 + (gen() % 40) / 100.0)
AxisVibration(base, g) == Quot(base * (90 + (g % 40)), 100)

\* Variant: the root of the mean of the squares
VibrationRMS(x, y, z) == ISqrt((x * x + y * y + z * z) \div 3)

\* The scalar is the norm of the three stored axis values
VibrationNorm(x, y, z) == ISqrt(x * x + y * y + z * z)

\* motor.vibration = sqrt(x^2 + y^2 + z^2) of the stored axes
StoreVibrationNorm(m) ==
    [m EXCEPT !.vibration = VibrationNorm(m.vibrationX, m.vibrationY, m.vibrationZ)]

\* The three axes from baseAxisVibration = newVibration / sqrt(3)
StoreAxes(m, baseAxisVibration, d) ==
    StoreVibrationNorm([m EXCEPT !.vibrationX = AxisVibration(baseAxisVibration, d.axisX),
                                 !.vibrationY = AxisVibration(baseAxisVibration, d.axisY),
                                 !.vibrationZ = AxisVibration(baseAxisVibration, d.axisZ)])

CalculateVibration(m, d) ==
    StoreAxes(m, Quot(StratifiedVibration(PhysicsVibration(m, d), d) * 1000, 1732), d)

\* Variant: the wear also grows with the health the last pass stored
CalculateBearingWearByHealth(m) ==
    LET timeWear  == Quot(m.operatingHours, 10)
        loadWear  == (m.load - 500) * 10
        tempWear  == Quot(m.temperature - BASE_TEMPERATURE, 2)
        speedWear == Quot(m.speed, 500) - 5000
        newWear   == Clamp(0, 1000000, m.bearingWear + timeWear + loadWear + tempWear
                                       + speedWear + (100 - m.systemHealth))
    IN  [m EXCEPT !.bearingWear = newWear,
                  !.bearingHealth = Pct(95000 - Quot(newWear, 10))]

CalculateBearingWear(m) ==
    LET timeWear  == Quot(m.operatingHours, 10)
        loadWear  == (m.load - 500) * 10
        tempWear  == Quot(m.temperature - BASE_TEMPERATURE, 2)
        speedWear == Quot(m.speed, 500) - 5000
        newWear   == Clamp(0, 1000000, m.bearingWear + timeWear + loadWear + tempWear + speedWear)
    IN  [m EXCEPT !.bearingWear = newWear,
                  !.bearingHealth = Pct(95000 - Quot(newWear, 10))]

CalculateOilDegradation(m) ==
    LET timeDegradation          == Quot(m.operatingHours, 20)
        tempDegradation          == Quot(m.temperature - BASE_TEMPERATURE, 5)
        contaminationDegradation == Quot(m.bearingWear, 100)
        newDegradation == Clamp(0, 1000000, m.oilDegradation + timeDegradation
                                            + tempDegradation + contaminationDegradation)
    IN  [m EXCEPT !.oilDegradation = newDegradation]

\* now - startTime in whole seconds; a tenth of the session hours is added
CalculateOperatingHours(m, now) ==
    LET newHours == m.operatingHours + Quot(now, 36)
    IN  [m EXCEPT !.operatingHours = newHours,
                  !.boatEngineHours = Quot(newHours * 8, 10000)]

\* The derived sensor readings of UpdateMotorPhysics, from the stored core state
DerivedReadings(m) ==
    LET r == Quot(m.speed, 2500)
    IN  [m EXCEPT
            !.torque = 50000 + r * 20,
            !.voltage = 230000 + r * 10,
            !.current = 20000 + r * 15,
            !.powerFactor = 920,
            !.humidity = 45000 + Quot(m.temperature, 100),
            !.ambientPressure = 101325 + Quot(m.temperature, 100),
            !.shaftPosition = Quot(m.speed, 10),
            !.displacement = Quot(m.vibration, 10),
            !.strainGauge1 = 100000 + r * 50,
            !.strainGauge2 = 150000 + r * 50,
            !.strainGauge3 = 200000 + r * 50,
            !.soundLevel = 70000 + r * 10,
            !.oilPressure = 3000 + r,
            !.airPressure = 6000 + Quot(r * 11, 2),
            !.hydraulicPressure = 150000 + r * 50,
            !.coolantFlowRate = 20000 - Quot(m.temperature, 10),
            !.fuelFlowRate = 12000 + r * 4]

\* ISO 10816 band of the vibration component, before its 0.25 weight
VibrationHealth(v) ==
    IF v < 2800 THEN 100000
    ELSE IF v < 7100 THEN 100000 - (v - 2800) * 8
    ELSE 0

\* Thermal band of the temperature component, before its 0.20 weight
TemperatureHealth(t) ==
    IF t < 70000 THEN 100000
    ELSE IF t < 85000 THEN 100000 - (t - 70000) * 2
    ELSE IF t < 95000 THEN 70000 - (t - 85000) * 4
    ELSE 0

\* Variant: the weights of vibration and temperature are exchanged
SystemHealthWeightsExchanged(m) ==
    LET efficiencyHealth  == Quot(m.efficiency * 2, 5)
        vibrationHealth   == Quot(VibrationHealth(m.vibration), 5)
        temperatureHealth == Quot(TemperatureHealth(m.temperature), 4)
        bearingHealth     == Quot(100000 - Quot(m.bearingWear, 20), 10)
        oilHealth         == Quot(100000 - Quot(m.oilDegradation, 20), 20)
        healthScore == Pct(efficiencyHealth + vibrationHealth + temperatureHealth
                           + bearingHealth + oilHealth)
    IN  Quot(healthScore, 1000)

\* (int) of the clamped weighted sum
SystemHealth(m) ==
    LET efficiencyHealth  == Quot(m.efficiency * 2, 5)
        vibrationHealth   == Quot(VibrationHealth(m.vibration), 4)
        temperatureHealth == Quot(TemperatureHealth(m.temperature), 5)
        bearingHealth     == Quot(100000 - Quot(m.bearingWear, 20), 10)
        oilHealth         == Quot(100000 - Quot(m.oilDegradation, 20), 20)
        healthScore == Pct(efficiencyHealth + vibrationHealth + temperatureHealth
                           + bearingHealth + oilHealth)
    IN  Quot(healthScore, 1000)

\* 0 = Good, 1 = Warning, 2 = Critical, 3 = Maintenance Due
MotorMaintenanceStatus(m) ==
    IF m.efficiency < 75000 \/ m.vibration > 6000 \/ m.temperature > 90000 THEN 2
    ELSE IF m.efficiency < 80000 \/ m.vibration > 4500 \/ m.temperature > 80000 THEN 1
    ELSE IF m.operatingHours > 1000000 THEN 3
    ELSE 0

\* x > t ? (x - t) * num / den : 0
Over(x, t, num, den) == IF x > t THEN Quot((x - t) * num, den) ELSE 0

\* The "daily life application" metrics of UpdateMotorPhysics
DailyLifeApplications(m) ==
    LET e == m.efficiency
        t == m.temperature
        v == m.vibration
    IN  [m EXCEPT
            !.hvacEfficiency = Quot(e * (1000 - Quot((t - 22000) * 2, 1000)), 1000),
            !.energySavings = Quot(e * 4, 5),
            !.comfortLevel = Pct(100000 - Quot(Abs(t - 22000) * 3, 2) - v * 2),
            !.airQuality = Pct(100000 - v * 8 - Over(t, 30000, 1, 2)),
            !.fuelEfficiency = Quot(Quot(e * 6, 5) * (1000 - Quot(t - 22000, 1000)), 1000),
            !.engineHealth = Quot(e * 9, 10),
            !.batteryLevel = Max(0, 100000 - (t - 30000) * 2 - Over(v, 2000, 5, 1)),
            !.tirePressure = Max(0, 100000 - v * 15 - Over(m.speed, 2000000, 1, 100)),
            !.boatEngineEfficiency =
                Pct(Quot(e * (1000 - Quot((t - 25000) * 2, 1000)), 1000) - Over(v, 2000, 3, 1)),
            !.bladeSharpness = Pct(100000 - v * 20 - Over(m.speed, 1500000, 1, 100)),
            !.fuelLevel = Pct(100000 - (t - 40000) * 3 - Over(v, 1500, 5, 1)),
            !.generatorPowerOutput =
                Pct(Quot(m.powerConsumption * 10 * (1000 - Quot(t - 30000, 1000)), 1000)),
            !.generatorFuelEfficiency = Pct(Quot(e * (1000 - Over(v, 2000, 2, 100)), 1000)),
            !.poolPumpFlowRate =
                Pct(Quot(m.coolantFlowRate * 20 * (1000 - Quot(t - 25000, 1000)), 1000)),
            !.poolPumpEnergyUsage =
                Pct(Quot(m.powerConsumption * 15 * (1000 + Over(v, 1000, 5, 100)), 1000)),
            !.washingMachineEfficiency = Pct(Quot(e * (1000 - Quot(v * 5, 100)), 1000)),
            !.dishwasherEfficiency = Pct(Quot(e * 9, 10) + (m.systemHealth - 80) * 300),
            !.refrigeratorEfficiency = Pct(Quot(e * 11, 10) - Quot((t - 4000) * 4, 5)),
            !.airConditionerEfficiency = Pct(Quot(e * (1000 - Quot((t - 22000) * 5, 1000)), 1000)),
            !.smartDevices = Quot(Quot(m.speed, 100) + Quot(e, 20), 1000)]

\* The nine Calculate* calls, in the order UpdateMotorPhysics makes them
CorePass(m, d, now) ==
    LET m1 == CalculateLoad(m, d)
        m2 == CalculateSpeed(m1, d)
        m3 == CalculateTemperature(m2, d)
        m4 == CalculateEfficiency(m3, d)
        m5 == CalculatePowerConsumption(m4)
        m6 == CalculateVibration(m5, d)
        m7 == CalculateBearingWear(m6)
        m8 == CalculateOilDegradation(m7)
    IN  CalculateOperatingHours(m8, now)

StoreSystemHealth(m) == [m EXCEPT !.systemHealth = SystemHealth(m)]

StoreMaintenanceStatus(m) == [m EXCEPT !.maintenanceStatus = MotorMaintenanceStatus(m)]

\* Variant: the derived readings are computed before the Calculate* calls
PhysicsPassDerivedFirst(m, d, now) ==
    DailyLifeApplications(
        StoreMaintenanceStatus(StoreSystemHealth(CorePass(DerivedReadings(m), d, now))))

\* The full pass: core state, derived readings, health, status, applications
PhysicsPass(m, d, now) ==
    DailyLifeApplications(
        StoreMaintenanceStatus(StoreSystemHealth(DerivedReadings(CorePass(m, d, now)))))

\* Variant: the early return is missing
PassAlwaysNeeded(flag) == TRUE

\* if (physicsUpdatedThisReading) return;
PassNeeded(flag) == ~flag

\* Variant: the pass runs but "physicsUpdatedThisReading = true" is missing
UpdateForgettingFlag(m, init, flag, d, now) ==
    IF PassNeeded(flag)
    THEN [motor |-> PhysicsPass(InitializeMotor(m, init), d, now), flag |-> flag, ran |-> TRUE]
    ELSE [motor |-> InitializeMotor(m, init), flag |-> flag, ran |-> FALSE]

\* Variant: a stopped motor is left as it is, if (!motor.isRunning) return;
UpdateOnlyWhenRunning(m, init, flag, d, now) ==
    IF PassNeeded(flag) /\ InitializeMotor(m, init).isRunning
    THEN [motor |-> PhysicsPass(InitializeMotor(m, init), d, now), flag |-> TRUE, ran |-> TRUE]
    ELSE [motor |-> InitializeMotor(m, init), flag |-> flag, ran |-> FALSE]

\* UpdateMotorPhysics(): the engine state it leaves and whether the pass ran
UpdateMotorPhysics(m, init, flag, d, now) ==
    IF PassNeeded(flag)
    THEN [motor |-> PhysicsPass(InitializeMotor(m, init), d, now), flag |-> TRUE, ran |-> TRUE]
    ELSE [motor |-> InitializeMotor(m, init), flag |-> flag, ran |-> FALSE]

---------------------------------------------------------------------------
(* Single-motor engine: the caller                                         *)

\* The draws the caller's passes are explored with: a base draw and the draws
\* that differ from it at one call site of gen()
BaseDraw ==
    [ loadRand |-> 150, scenario |-> 0, speedRand |-> 250, speedBias |-> 7,
      thermalScenario |-> 0, randomHeat |-> 700, scenarioTemp |-> 30,
      tempDistribution |-> 10, tempResample |-> 55,
      effScenario |-> 0, effRand |-> 400, effScenarioVar |-> 50,
      effDistribution |-> 10, effResample |-> 1234,
      vibScenario |-> 1, imbalance |-> 10, vibRand |-> 350, vibScenarioVar |-> 20,
      vibDistribution |-> 10, vibResample |-> 42,
      axisX |-> 0, axisY |-> 20, axisZ |-> 39 ]

MotorDraws ==
    { BaseDraw,
      [BaseDraw EXCEPT !.scenario = 3, !.thermalScenario = 5],
      [BaseDraw EXCEPT !.speedRand = 150],
      [BaseDraw EXCEPT !.tempDistribution = 75],
      [BaseDraw EXCEPT !.tempDistribution = 95],
      [BaseDraw EXCEPT !.effDistribution = 80],
      [BaseDraw EXCEPT !.effDistribution = 95, !.effResample = 234],
      [BaseDraw EXCEPT !.vibDistribution = 95, !.axisX = 39] }

\* Seconds the steady clock may have advanced when a pass reads it
ClockSteps == {3600}

\* The accessors the caller uses; every accessor of the engine has the body
\* "UpdateMotorPhysics(); return motor.<field>;"
ObservedFields ==
    { "speed", "rpm", "torque", "temperature", "systemHealth", "maintenanceStatus" }

\* Index arguments of GetMachineRunning / GetMachineLoad
MotorIndices == {-1, 0, 17}

NoReturn == [op |-> "none", field |-> "none", index |-> 0, value |-> 0]

\* The two callers of the concurrent caller, and a caller outside any call
Threads == {1, 2}
IdleThread == [pc |-> "idle", field |-> "none", value |-> 0, tick |-> 0]
NoSeen   == [field |-> "none", value |-> 0, switched |-> FALSE]

InitMotorVars ==
    /\ motor = ZeroMotor
    /\ initialized = FALSE
    /\ physicsUpdatedThisReading = FALSE
    /\ elapsed = 0
    /\ ret = NoReturn
    /\ seen = NoSeen
    /\ passes = 0
    /\ called = FALSE
    /\ ticks = 0
    /\ gen = BaseDraw
    /\ threads = [t \in Threads |-> IdleThread]

\* gen() and the clock are read only by a pass that runs
PassDraws == IF PassNeeded(physicsUpdatedThisReading) THEN MotorDraws ELSE {BaseDraw}

\* UpdateMotorPhysics() on the engine's state, the clock dt seconds further
\* when the pass reads it
Updated(d, dt) ==
    UpdateMotorPhysics(motor, initialized, physicsUpdatedThisReading, d, elapsed + dt)

\* The part every call that runs UpdateMotorPhysics() shares
Updating(u, dt) ==
    /\ motor' = u.motor
    /\ initialized' = TRUE
    /\ physicsUpdatedThisReading' = u.flag
    /\ elapsed' = IF u.ran THEN elapsed + dt ELSE elapsed
    /\ passes' = IF u.ran THEN passes + 1 ELSE passes
    /\ called' = TRUE
    /\ UNCHANGED <<ticks, gen, threads>>
    /\ UNCHANGED enhVars

\* The caller may keep one return value of the tick to compare later ones with
Remember(f, v) ==
    \/ seen' = seen
    \/ seen.field = "none" /\ seen' = [field |-> f, value |-> v, switched |-> FALSE]

\* The caller notes a StartMotor / StopMotor made after the value it kept
NoteSwitch == seen' = IF seen.field = "none" THEN seen ELSE [seen EXCEPT !.switched = TRUE]

\* UpdateMotorPhysics(); return motor.<f>;
Returning(u, dt, f, index) ==
    /\ Updating(u, dt)
    /\ ret' = [op |-> "get", field |-> f, index |-> index, value |-> u.motor[f]]
    /\ Remember(f, u.motor[f])

\* double GetMotorSpeed() ... GetAirConditionerEfficiency(), GetIndustrialMachineCount()
MotorAccessor(f) ==
    \E d \in PassDraws, dt \in ClockSteps : Returning(Updated(d, dt), dt, f, 0)

\* bool GetMachineRunning(int index): the index is not used
GetMachineRunning(index) ==
    \E d \in PassDraws, dt \in ClockSteps : Returning(Updated(d, dt), dt, "isRunning", index)

\* double GetMachineLoad(int index): the index is not used
GetMachineLoad(index) ==
    \E d \in PassDraws, dt \in ClockSteps : Returning(Updated(d, dt), dt, "load", index)

\* UpdateMotorPhysics(); motor.isRunning = run;
Switched(u, run) == [u EXCEPT !.motor.isRunning = run]

\* void StartMotor() / void StopMotor()
SetRunning(op, run) ==
    \E d \in PassDraws, dt \in ClockSteps :
        /\ Updating(Switched(Updated(d, dt), run), dt)
        /\ ret' = [NoReturn EXCEPT !.op = op]
        /\ NoteSwitch

StartMotor == SetRunning("StartMotor", TRUE)

StopMotor == SetRunning("StopMotor", FALSE)

\* void ResetMotorState(): InitializeMotor() and nothing else
ResetMotorState ==
    /\ motor' = InitializeMotor(motor, initialized)
    /\ initialized' = TRUE
    /\ ret' = [NoReturn EXCEPT !.op = "ResetMotorState"]
    /\ UNCHANGED <<physicsUpdatedThisReading, elapsed, seen, passes, called, ticks, gen,
                   threads>>
    /\ UNCHANGED enhVars

\* void ResetPhysicsUpdateFlag()
ResetPhysicsUpdateFlag ==
    /\ ticks < MaxTicks
    /\ physicsUpdatedThisReading' = FALSE
    /\ ticks' = ticks + 1
    /\ passes' = 0
    /\ called' = FALSE
    /\ seen' = NoSeen
    /\ ret' = [NoReturn EXCEPT !.op = "ResetPhysicsUpdateFlag"]
    /\ UNCHANGED <<motor, initialized, elapsed, gen, threads>>
    /\ UNCHANGED enhVars

\* int TestEngine(): InitializeMotor(); UpdateMotorPhysics(); prints; returns 1
TestEngine ==
    \E d \in PassDraws, dt \in ClockSteps :
        /\ Updating(Updated(d, dt), dt)
        /\ ret' = [op |-> "TestEngine", field |-> "none", index |-> 0, value |-> 1]
        /\ UNCHANGED seen

---------------------------------------------------------------------------
(* Single-motor engine: a long run of readings at one operating point       *)

\* The operating points of a long run, as the values gen() yields at every
\* pass of the run: the one with the smallest wear terms (scenario 3 with
\* load 0.45 and base speed 2200, no speed variation, temperature 60.0), the
\* base draw, a hot one (temperature 94.9) and one whose speed variation wraps
WearDraws ==
    { [BaseDraw EXCEPT !.scenario = 3, !.speedRand = 200, !.tempResample = 0],
      BaseDraw,
      [BaseDraw EXCEPT !.tempDistribution = 95, !.tempResample = 49],
      [BaseDraw EXCEPT !.speedRand = 150] }

\* The steady clock is one second further at every pass of a long run
WearClockSteps == {1}

\* double GetBearingHealth(), the values of gen() those of the run
GetBearingHealth ==
    \E dt \in WearClockSteps : Returning(Updated(gen, dt), dt, "bearingHealth", 0)

\* void ResetPhysicsUpdateFlag() after the reading of a long run
ResetAfterReading ==
    /\ ticks < MaxWearTicks
    /\ physicsUpdatedThisReading' = FALSE
    /\ ticks' = ticks + 1
    /\ passes' = 0
    /\ called' = FALSE
    /\ seen' = NoSeen
    /\ ret' = [NoReturn EXCEPT !.op = "ResetPhysicsUpdateFlag"]
    /\ UNCHANGED <<motor, initialized, elapsed, gen, threads>>
    /\ UNCHANGED enhVars

---------------------------------------------------------------------------
(* Single-motor engine: the calculations applied on their own              *)

\* States of the motor the calculations are applied to: the seeds, and the
\* seeds after one full pass
PriorMotors ==
    {SeededMotor}
    \cup {PhysicsPass(SeededMotor, d, 3600) :
             d \in {BaseDraw, [BaseDraw EXCEPT !.scenario = 3, !.thermalScenario = 5]}}

\* Draws of CalculateTemperature: every selector gen() % 100 with the largest
\* resample, and the selectors at the band edges with the smallest resample,
\* another thermal scenario and a randomHeat residue that wraps
TemperatureDraws ==
    {[BaseDraw EXCEPT !.tempDistribution = s, !.tempResample = 199] : s \in 0..99}
    \cup {[BaseDraw EXCEPT !.tempDistribution = s, !.tempResample = 0,
                           !.thermalScenario = 5, !.randomHeat = 100] :
             s \in {0, 69, 70, 89, 90, 99}}

\* Draws of CalculateEfficiency: the selectors at the band edges, the smallest
\* and largest resample, two efficiency scenarios
EfficiencyDraws ==
    {[BaseDraw EXCEPT !.effDistribution = s, !.effResample = r, !.effScenario = k] :
        s \in {0, 69, 70, 89, 90, 99}, r \in {0, 1499}, k \in {0, 3}}

\* One calculation op with the draws d leaves the motor as m
Applying(op, m, d) ==
    /\ budget > 0
    /\ budget' = budget - 1
    /\ motor' = m
    /\ gen' = d
    /\ ret' = [NoReturn EXCEPT !.op = op]
    /\ UNCHANGED <<initialized, physicsUpdatedThisReading, elapsed, seen, passes,
                   called, ticks, threads>>
    /\ UNCHANGED <<industrialMachines, edgeNodes, mlModels, systemInitialized, eret>>

\* double CalculateTemperature()
ApplyCalculateTemperature ==
    \E d \in TemperatureDraws :
        Applying("CalculateTemperature", CalculateTemperature(motor, d), d)

\* double CalculateEfficiency()
ApplyCalculateEfficiency ==
    \E d \in EfficiencyDraws :
        Applying("CalculateEfficiency", CalculateEfficiency(motor, d), d)

\* The full pass of UpdateMotorPhysics(), an hour after the start
ApplyPhysicsPass ==
    \E d \in MotorDraws : Applying("UpdateMotorPhysics", PhysicsPass(motor, d, 3600), d)

---------------------------------------------------------------------------
(* Single-motor engine: two threads calling accessors, no lock             *)

\* The accessors the threads call
ThreadFields == {"temperature", "speed"}

\* Variant: the flag is tested again just before the Calculate* calls
ThreadPassRechecks(flag) == ~flag

\* Between "if (physicsUpdatedThisReading) return;" and the Calculate* calls
\* the flag is not read again
ThreadPassRuns(flag) == TRUE

\* Thread t enters accessor f: InitializeMotor(), then the test of the flag
EnterAccessor(t, f) ==
    /\ threads[t].pc = "idle"
    /\ budget > 0
    /\ budget' = budget - 1
    /\ motor' = InitializeMotor(motor, initialized)
    /\ initialized' = TRUE
    /\ called' = TRUE
    /\ threads' = [threads EXCEPT ![t] =
                       [pc |-> IF PassNeeded(physicsUpdatedThisReading) THEN "pass" ELSE "return",
                        field |-> f, value |-> 0, tick |-> ticks]]
    /\ UNCHANGED <<physicsUpdatedThisReading, elapsed, ret, seen, passes, ticks, gen>>
    /\ UNCHANGED <<industrialMachines, edgeNodes, mlModels, systemInitialized, eret>>

\* Thread t, past the test, runs the Calculate* calls and sets the flag
PassOfThread(t, d, dt) ==
    /\ threads[t].pc = "pass"
    /\ threads' = [threads EXCEPT ![t].pc = "return"]
    /\ IF ThreadPassRuns(physicsUpdatedThisReading)
       THEN /\ motor' = PhysicsPass(motor, d, elapsed + dt)
            /\ physicsUpdatedThisReading' = TRUE
            /\ elapsed' = elapsed + dt
            /\ passes' = passes + 1
       ELSE UNCHANGED <<motor, physicsUpdatedThisReading, elapsed, passes>>
    /\ UNCHANGED <<initialized, ret, seen, called, ticks, gen>>
    /\ UNCHANGED enhVars

RunPass(t) == \E d \in MotorDraws, dt \in ClockSteps : PassOfThread(t, d, dt)

\* return motor.<field>;
ReturnFromAccessor(t) ==
    /\ threads[t].pc = "return"
    /\ threads' = [threads EXCEPT ![t].pc = "idle", ![t].value = motor[threads[t].field]]
    /\ ret' = [op |-> "get", field |-> threads[t].field, index |-> 0,
               value |-> motor[threads[t].field]]
    /\ UNCHANGED <<motor, initialized, physicsUpdatedThisReading, elapsed, seen, passes,
                   called, ticks, gen>>
    /\ UNCHANGED enhVars

\* The reading ends once both threads are back: ResetPhysicsUpdateFlag()
ResetBetweenReadings ==
    /\ \A t \in Threads : threads[t].pc = "idle"
    /\ ResetPhysicsUpdateFlag

---------------------------------------------------------------------------
(* Multi-machine engine: enhanced_motor_engine.cpp                         *)

MACHINE_TYPE_MOTOR      == 0
MACHINE_TYPE_PUMP       == 1
MACHINE_TYPE_CONVEYOR   == 2
MACHINE_TYPE_COMPRESSOR == 3
MACHINE_TYPE_FAN        == 4
MACHINE_TYPE_GENERATOR  == 5
MACHINE_TYPE_TURBINE    == 6
MACHINE_TYPE_CRUSHER    == 7
MACHINE_TYPE_MIXER      == 8
MACHINE_TYPE_PRESS      == 9

\* A MachineState with the wear, degradation, hours and status every seed
\* starts from; an id "PUMP-101" is kept as <<"PUMP-", 101>>
Machine(type, id, name, run, speed, target, temp, load, eff, power, vib, pres, flow, health) ==
    [ type |-> type, id |-> id, name |-> name, isRunning |-> run,
      currentSpeed |-> speed, targetSpeed |-> target, temperature |-> temp,
      load |-> load, efficiency |-> eff, powerConsumption |-> power,
      vibration |-> vib, pressure |-> pres, flowRate |-> flow,
      bearingWear |-> 0, oilDegradation |-> 0, operatingHours |-> 0,
      maintenanceStatus |-> 0, healthScore |-> health ]

mainMotor ==
    Machine(MACHINE_TYPE_MOTOR, <<"MOTOR-001">>, <<"Main Drive Motor">>, TRUE,
            2500000, 2500000, 65000, 700, 92000, 4500, 1500, 3500, 15000, 95000)

\* Variant: the pumps are seeded running whatever the clock shows
pumpSeededRunning(i, wh) ==
    Machine(MACHINE_TYPE_PUMP, <<"PUMP-", 100 + i>>, <<"Industrial Pump ", i>>, TRUE,
            1800000 + i * 100000, 1800000 + i * 100000, 55000 + i * 5000,
            600 + i * 100, 88000 + i * 2000, 3200 + i * 500, 1200 + i * 100,
            8000 + i * 2000, 25000 + i * 5000, 92000 + i * 1000)

pump(i, wh) ==
    Machine(MACHINE_TYPE_PUMP, <<"PUMP-", 100 + i>>, <<"Industrial Pump ", i>>, wh,
            1800000 + i * 100000, 1800000 + i * 100000, 55000 + i * 5000,
            600 + i * 100, 88000 + i * 2000, 3200 + i * 500, 1200 + i * 100,
            8000 + i * 2000, 25000 + i * 5000, 92000 + i * 1000)

conveyor(i, wh) ==
    Machine(MACHINE_TYPE_CONVEYOR, <<"CONV-", 100 + i>>, <<"Conveyor Belt ", i>>, wh,
            120000 + i * 20000, 120000 + i * 20000, 45000 + i * 3000,
            500 + i * 150, 85000 + i * 3000, 2800 + i * 300, 800 + i * 100,
            0, 0, 90000 + i * 2000)

compressor(i, wh) ==
    Machine(MACHINE_TYPE_COMPRESSOR, <<"COMP-", 100 + i>>, <<"Air Compressor ", i>>, wh,
            3000000 + i * 200000, 3000000 + i * 200000, 75000 + i * 8000,
            800 + i * 100, 82000 + i * 4000, 7500 + i * 1500, 2100 + i * 200,
            12000 + i * 3000, 8000 + i * 2000, 88000 + i * 3000)

fan(i, wh) ==
    Machine(MACHINE_TYPE_FAN, <<"FAN-", 100 + i>>, <<"Industrial Fan ", i>>, wh,
            800000 + i * 100000, 800000 + i * 100000, 30000 + i * 2000,
            400 + i * 100, 85000 + i * 3000, 2600 + i * 400, 600 + i * 100,
            0, 120000 + i * 20000, 92000 + i * 2000)

generator(i) ==
    Machine(MACHINE_TYPE_GENERATOR, <<"GEN-", 100 + i>>, <<"Backup Generator ", i>>, FALSE,
            0, 1800000, 25000, 0, 92000 + i * 2000, 0, 200, 0, 0, 95000 + i * 1000)

turbine(i, wh) ==
    Machine(MACHINE_TYPE_TURBINE, <<"TURB-", 100 + i>>, <<"Steam Turbine ", i>>, wh,
            3600000, 3600000, 120000, 900, 88000, 0, 1800, 45000, 150000, 89000)

crusher(i, wh) ==
    Machine(MACHINE_TYPE_CRUSHER, <<"CRUSH-", 100 + i>>, <<"Jaw Crusher ", i>>, wh,
            250000, 250000, 45000, 800, 78000, 75000, 3500, 0, 0, 82000)

mixer(i, wh) ==
    Machine(MACHINE_TYPE_MIXER, <<"MIX-", 100 + i>>, <<"Industrial Mixer ", i>>, wh,
            60000 + i * 20000, 60000 + i * 20000, 40000 + i * 5000,
            600 + i * 100, 87000 + i * 2000, 5500 + i * 1000, 1200 + i * 200,
            0, 0, 90000 + i * 2000)

press(i, wh) ==
    Machine(MACHINE_TYPE_PRESS, <<"PRESS-", 100 + i>>, <<"Hydraulic Press ", i>>, wh,
            0, 0, 35000, 700, 85000, 45000, 800, 200000, 0, 88000)

\* The machines in push_back order; wh is isWorkingHours() at that moment
SeededMachines(wh) ==
    <<mainMotor>>
    \o [i \in 1..3 |-> pump(i, wh)]
    \o [i \in 1..2 |-> conveyor(i, wh)]
    \o [i \in 1..2 |-> compressor(i, wh)]
    \o [i \in 1..2 |-> fan(i, wh)]
    \o [i \in 1..2 |-> generator(i)]
    \o [i \in 1..1 |-> turbine(i, wh)]
    \o [i \in 1..1 |-> crusher(i, wh)]
    \o [i \in 1..2 |-> mixer(i, wh)]
    \o [i \in 1..1 |-> press(i, wh)]

EdgeNode(id, name, location, cpu, mem, lat, proc, stor, bw, online, conn) ==
    [ id |-> id, name |-> name, location |-> location, cpuUsage |-> cpu,
      memoryUsage |-> mem, networkLatency |-> lat, processingTime |-> proc,
      storageUsed |-> stor, bandwidthUsage |-> bw, isOnline |-> online,
      connectedMachines |-> conn, lastSync |-> 0 ]

genericNode(i) ==
    EdgeNode(<<"EDGE-", 100 + i>>, <<"Edge Node ", i>>,
             <<"Building ", i, ", Floor ", (i % 2) + 1>>,
             35000 + i * 8000, 55000 + i * 6000, 12000 + i * 3000, 45000 + i * 12000,
             6800 + i * 2200, 60000 + i * 8000, TRUE, 3 + i)

dataNode ==
    EdgeNode(<<"EDGE-DATA-001">>, <<"Data Processing Edge Node">>, <<"Building 1, Floor 2">>,
             78000, 85000, 8000, 25000, 45200, 90000, TRUE, 8)

aiNode ==
    EdgeNode(<<"EDGE-AI-001">>, <<"AI/ML Processing Edge Node">>, <<"Building 2, Floor 2">>,
             92000, 95000, 5000, 15000, 62800, 85000, TRUE, 12)

securityNode ==
    EdgeNode(<<"EDGE-SEC-001">>, <<"Security Edge Node">>, <<"Building 3, Floor 1">>,
             45000, 70000, 3000, 8000, 28500, 40000, TRUE, 15)

backupNode ==
    EdgeNode(<<"EDGE-BACKUP-001">>, <<"Backup Edge Node">>, <<"Building 4, Floor 1">>,
             0, 0, 0, 0, 0, 0, FALSE, 0)

SeededEdgeNodes ==
    [i \in 1..5 |-> genericNode(i)] \o <<dataNode, aiNode, securityNode, backupNode>>

\* accuracy in 1/1000 %, confidence and feature weights in 1/1000,
\* failureProbability in 1/1000 %, remainingUsefulLife in seconds
MLModel(id, name, acc, conf, fail, rul, weights) ==
    [ modelId |-> id, modelName |-> name, accuracy |-> acc, confidence |-> conf,
      failureProbability |-> fail, remainingUsefulLife |-> rul,
      featureWeights |-> weights, predictionCount |-> 0 ]

SeededMLModels ==
    << MLModel("ML-001", "Predictive Maintenance Model", 96800, 920, 1800, 666000,
               <<350, 280, 220, 100, 50>>),
       MLModel("ML-002", "Anomaly Detection Model", 94500, 880, 0, 0, <<400, 300, 200, 100>>),
       MLModel("ML-003", "Energy Optimization Model", 91200, 850, 0, 0, <<450, 250, 200, 100>>),
       MLModel("ML-004", "Quality Control Model", 93700, 900, 0, 0, <<300, 350, 250, 100>>),
       MLModel("ML-005", "Performance Prediction Model", 89400, 820, 0, 0, <<250, 300, 250, 200>>),
       MLModel("ML-006", "Fault Diagnosis Model", 95100, 910, 0, 0, <<350, 250, 200, 150, 50>>) >>

\* Variant: the systemInitialized guard is missing
NeverInitialized(init) == FALSE

\* if (systemInitialized) return;
AlreadyInitialized(init) == init

\* initializeIndustrialSystem(): the registry it leaves; each vector is
\* cleared and then seeded by push_back
initializeIndustrialSystem(reg, wh) ==
    IF AlreadyInitialized(reg.init) THEN reg
    ELSE [machines |-> SeededMachines(wh),
          nodes |-> SeededEdgeNodes,
          models |-> SeededMLModels, init |-> TRUE]

\* ambientTemp = 22.0 + getSeasonalFactor() * 5.0, sf in 1/1000
AmbientTemp(sf) == 22000 + sf * 5

\* Variant: the guard is missing
PhysicsRunsAlways(mc) == TRUE

\* Variant: the guard is inverted, if (machine.isRunning) return;
PhysicsRunsInverted(mc) == ~mc.isRunning

\* if (!machine.isRunning) return;
PhysicsRuns(mc) == mc.isRunning

\* Stage 1: machine.operatingHours += elapsedSeconds / 3600.0
StoreOperatingHours(mc, elapsedSeconds) ==
    [mc EXCEPT !.operatingHours = @ + elapsedSeconds]

\* Stage 2: the bearing wear added by one update (1e-9)
WearIncrement(mc, elapsedSeconds) ==
    LET speedFactor == Quot(mc.currentSpeed, 2500)
        loadFactor  == mc.load
        tempTerm    == 1000 + Quot(mc.temperature - 65000, 60)
        product     == Quot(Quot(speedFactor * loadFactor, 1000) * tempTerm, 1000)
    IN  Quot(product * elapsedSeconds * 2, 9)

StoreBearingWear(mc, elapsedSeconds) ==
    [mc EXCEPT !.bearingWear = @ + WearIncrement(mc, elapsedSeconds)]

\* Stage 3: the oil degradation added by one update (1e-9)
OilIncrement(mc, elapsedSeconds) ==
    LET oilTerm == 1000 + Quot((mc.temperature - 65000) * 3, 200)
    IN  Quot(oilTerm * elapsedSeconds, 24)

\* Variant: the increment is assigned (=) where the code accumulates (+=)
StoreOilAssigned(mc, elapsedSeconds) ==
    [mc EXCEPT !.oilDegradation = OilIncrement(mc, elapsedSeconds)]

StoreOilDegradation(mc, elapsedSeconds) ==
    [mc EXCEPT !.oilDegradation = @ + OilIncrement(mc, elapsedSeconds)]

\* Stage 4: thermal dynamics, clamped to [ambient, 120]
NextTemperature(mc, elapsedSeconds, sf) ==
    LET speedFactor    == Quot(mc.currentSpeed, 2500)
        heatGeneration == mc.load * 15 + speedFactor * 8
        coolingRate    == 800 + Quot(speedFactor * 4, 10)
        tempChange     == Quot((heatGeneration
                                - Quot(coolingRate * (mc.temperature - AmbientTemp(sf)), 1000))
                               * elapsedSeconds, 60)
    IN  Clamp(AmbientTemp(sf), 120000, mc.temperature + tempChange)

StoreTemperature(mc, elapsedSeconds, sf) ==
    [mc EXCEPT !.temperature = NextTemperature(mc, elapsedSeconds, sf)]

\* Stage 5: efficiency, clamped to [70, 96]
NextEfficiency(mc) ==
    LET wearLoss == Quot(Quot(mc.bearingWear, 100) * 12, 1000)
        oilLoss  == Quot(Quot(mc.oilDegradation, 100) * 8, 1000)
        tempLoss == Max(0, Quot(mc.temperature - 75000, 5))
        loadLoss == Abs(mc.load - 800) * 5
    IN  Clamp(70000, 96000, 95000 - wearLoss - oilLoss - tempLoss - loadLoss)

StoreEfficiency(mc) == [mc EXCEPT !.efficiency = NextEfficiency(mc)]

\* Stage 6: vibration, clamped to [0.5, 8.0]
NextVibration(mc) ==
    LET speedHarmonic   == Quot(SinMilli(Quot(mc.currentSpeed, 100)) * 3, 10)
        loadHarmonic    == Quot(SinMilli(mc.load * 10) * 2, 10)
        wearHarmonic    == Quot(Quot(mc.bearingWear, 1000) * 15, 1000)
        resonanceEffect == Quot(SinMilli(Quot(mc.operatingHours * 5, 36)), 10)
    IN  Clamp(500, 8000, 1000 + speedHarmonic + loadHarmonic + wearHarmonic + resonanceEffect)

StoreVibration(mc) == [mc EXCEPT !.vibration = NextVibration(mc)]

\* Variant of stage 7: the speed change is subtracted instead of added
NextSpeedAway(mc, elapsedSeconds) ==
    LET targetSpeed        == mc.targetSpeed
        loadResponse       == (mc.load - 700) * 300
        tempResponse       == Quot((mc.temperature - 65000) * 3, 2)
        efficiencyResponse == (mc.efficiency - 90000) * 2
        speedChange == Quot(targetSpeed + loadResponse - tempResponse
                            - efficiencyResponse - mc.currentSpeed, 10)
        moved       == mc.currentSpeed - Quot(speedChange * elapsedSeconds, 60)
    IN  Clamp(Quot(targetSpeed * 7, 10), Quot(targetSpeed * 13, 10), moved)

\* Stage 7: speed control, clamped by max(0.7 target, min(1.3 target, speed))
NextSpeed(mc, elapsedSeconds) ==
    LET targetSpeed        == mc.targetSpeed
        loadResponse       == (mc.load - 700) * 300
        tempResponse       == Quot((mc.temperature - 65000) * 3, 2)
        efficiencyResponse == (mc.efficiency - 90000) * 2
        speedChange == Quot(targetSpeed + loadResponse - tempResponse
                            - efficiencyResponse - mc.currentSpeed, 10)
        moved       == mc.currentSpeed + Quot(speedChange * elapsedSeconds, 60)
    IN  Clamp(Quot(targetSpeed * 7, 10), Quot(targetSpeed * 13, 10), moved)

StoreSpeed(mc, elapsedSeconds) == [mc EXCEPT !.currentSpeed = NextSpeed(mc, elapsedSeconds)]

\* Stage 8: load, clamped to [0.2, 1.0]
NextLoad(mc, sf) ==
    LET productionCycle     == Quot(SinMilli(Quot(mc.operatingHours, 72)) * 15, 100)
        demandVariation     == Quot(SinMilli(Quot(mc.operatingHours, 18)), 10)
        efficiencyVariation == Quot(mc.efficiency - 90000, 100)
        seasonalVariation   == Quot(sf, 20)
    IN  Clamp(200, 1000, 750 + productionCycle + demandVariation
                          + efficiencyVariation + seasonalVariation)

StoreLoad(mc, sf) == [mc EXCEPT !.load = NextLoad(mc, sf)]

\* Stage 9: power, clamped to [2, 15]
NextPower(mc) ==
    LET loadPower       == Quot(mc.load * 9, 5)
        efficiencyPower == Quot((100000 - mc.efficiency) * 3, 20)
        tempPower       == Quot(mc.temperature - 65000, 20)
        wearPower       == Quot(mc.bearingWear, 20000)
    IN  Clamp(2000, 15000, 4500 + loadPower + efficiencyPower + tempPower + wearPower)

StorePower(mc) == [mc EXCEPT !.powerConsumption = NextPower(mc)]

\* Stage 10: health score, clamped to [0, 100]
NextHealthScore(mc) ==
    LET wearImpact           == Quot(mc.bearingWear, 4000)
        oilImpact            == Quot(Quot(mc.oilDegradation, 100) * 3, 200)
        tempImpact           == Max(0, Quot((mc.temperature - 75000) * 4, 5))
        vibrationImpact      == (mc.vibration - 1000) * 12
        efficiencyImpact     == Quot((100000 - mc.efficiency) * 4, 5)
        operatingHoursImpact == Quot(mc.operatingHours, 360)
    IN  Clamp(0, 100000, 100000 - wearImpact - oilImpact - tempImpact - vibrationImpact
                         - efficiencyImpact - operatingHoursImpact)

StoreHealthScore(mc) == [mc EXCEPT !.healthScore = NextHealthScore(mc)]

CriticalCondition(mc) ==
    \/ mc.bearingWear > 100000000
    \/ mc.oilDegradation > 50000000
    \/ mc.temperature > 90000
    \/ mc.vibration > 3000

WarningCondition(mc) ==
    \/ mc.bearingWear > 50000000
    \/ mc.oilDegradation > 20000000
    \/ mc.temperature > 80000
    \/ mc.vibration > 2500
    \/ mc.efficiency < 85000

\* machine.operatingHours > 0 && (int)(machine.operatingHours) % 100 == 0,
\* the hours kept in seconds
MaintenanceDueCondition(mc) ==
    mc.operatingHours > 0 /\ (mc.operatingHours \div 3600) % 100 = 0

\* Variant: the Warning test comes before the Critical test
WarningBeforeCritical(mc) ==
    IF WarningCondition(mc) THEN 1
    ELSE IF CriticalCondition(mc) THEN 2
    ELSE IF MaintenanceDueCondition(mc) THEN 3
    ELSE 0

\* Stage 11: 0 = Good, 1 = Warning, 2 = Critical, 3 = Maintenance Due
NextMaintenanceStatus(mc) ==
    IF CriticalCondition(mc) THEN 2
    ELSE IF WarningCondition(mc) THEN 1
    ELSE IF MaintenanceDueCondition(mc) THEN 3
    ELSE 0

StoreMaintenance(mc) == [mc EXCEPT !.maintenanceStatus = NextMaintenanceStatus(mc)]

\* Variant: the load is stored before the efficiency, not after the speed
PhysicsStagesLoadEarly(mc, elapsedSeconds, sf) ==
    StoreMaintenance(StoreHealthScore(StorePower(
        StoreSpeed(StoreVibration(StoreEfficiency(StoreLoad(StoreTemperature(
            StoreOilDegradation(StoreBearingWear(
                StoreOperatingHours(mc, elapsedSeconds),
                elapsedSeconds), elapsedSeconds),
            elapsedSeconds, sf), sf))), elapsedSeconds))))

\* The eleven stages in order, each reading what the earlier ones wrote
PhysicsStages(mc, elapsedSeconds, sf) ==
    StoreMaintenance(StoreHealthScore(StorePower(StoreLoad(
        StoreSpeed(StoreVibration(StoreEfficiency(StoreTemperature(
            StoreOilDegradation(StoreBearingWear(
                StoreOperatingHours(mc, elapsedSeconds),
                elapsedSeconds), elapsedSeconds),
            elapsedSeconds, sf))), elapsedSeconds),
        sf))))

\* updateMachinePhysics(machine, elapsedSeconds); sf is getSeasonalFactor()
updateMachinePhysics(mc, elapsedSeconds, sf) ==
    IF PhysicsRuns(mc) THEN PhysicsStages(mc, elapsedSeconds, sf) ELSE mc

---------------------------------------------------------------------------
(* Multi-machine engine: the caller                                        *)

\* Values of getSeasonalFactor() (1/1000) a call may read
SeasonalFactors == {-100, 100}

\* Index arguments: below range, the main motor (running), a backup generator
\* (stopped until started), one past the end
EnhIndices == {-1, 0, 10, 17}

\* Arguments of SetMachineTargetSpeed (1/1000 rpm)
TargetSpeeds == {3000000, -2500000}

\* Arguments of the caller that drives the main motor: those, and a target
\* whose lower clamp bound 0.7 * 4286 lies just above 3000
DriveTargetSpeeds == TargetSpeeds \cup {4286000}

\* Sign of the random_double(-a, a) noise an accessor adds to what it returns
NoiseSigns == {-1, 1}

\* The accessors that call updateMachinePhysics(machine, 1.0)
MachineReadings ==
    { "currentSpeed", "temperature", "load", "efficiency", "powerConsumption",
      "vibration", "healthScore", "maintenanceStatus" }

\* The amplitude a of the noise each of them adds
NoiseAmplitude(kind) ==
    CASE kind = "currentSpeed"     -> 1000
      [] kind = "temperature"      -> 500
      [] kind = "load"             -> 50
      [] kind = "efficiency"       -> 500
      [] kind = "powerConsumption" -> 200
      [] kind = "vibration"        -> 100
      [] kind = "healthScore"      -> 1000
      [] OTHER                     -> 0

\* The accessors that only read: GetMachineId, GetMachineName, GetMachineType,
\* GetMachineRunning
MachineInfos == { "id", "name", "type", "isRunning" }

InfoSentinel(kind) ==
    CASE kind = "id"   -> <<"UNKNOWN">>
      [] kind = "name" -> <<"Unknown Machine">>
      [] kind = "type" -> 0
      [] OTHER         -> FALSE

\* What the caller knows of its last call: the function, its index argument,
\* what it returned, the machines it called updateMachinePhysics on (called),
\* those of them whose run flag was set (updated), and the ambient
\* temperature 22 + 5 * getSeasonalFactor() at the time of the call
NoCall == [op |-> "none", index |-> 0, value |-> 0, called |-> {}, updated |-> {},
           ambient |-> 0]

InitEnhVars(calls) ==
    /\ industrialMachines = <<>>
    /\ edgeNodes = <<>>
    /\ mlModels = <<>>
    /\ systemInitialized = FALSE
    /\ eret = NoCall
    /\ budget = calls

Registry ==
    [machines |-> industrialMachines, nodes |-> edgeNodes, models |-> mlModels,
     init |-> systemInitialized]

\* static bool isWorkingHours(), of the local tm_wday (0 = Sunday) and tm_hour
isWorkingHours(dayOfWeek, hour) ==
    (dayOfWeek >= 1 /\ dayOfWeek <= 5) /\ (hour >= 8 /\ hour < 18)

\* <<tm_wday, tm_hour>> the local clock may show: a Sunday and a Saturday at
\* 10, a Monday at 7 and at 8, a Friday at 17 and at 18
ClockReadings == {<<0, 10>>, <<1, 7>>, <<1, 8>>, <<5, 17>>, <<5, 18>>, <<6, 10>>}

\* isWorkingHours() is read only while the registry is being seeded
WorkingHoursValues ==
    IF systemInitialized THEN {FALSE}
    ELSE {isWorkingHours(c[1], c[2]) : c \in ClockReadings}

\* The registry after the initializeIndustrialSystem() every call starts with
Initialized(wh) == initializeIndustrialSystem(Registry, wh)

\* index >= 0 && index < size
ValidIndex(index, size) == index >= 0 /\ index < size

\* The call leaves the registry reg with the machines ms and reports r
Leaves(reg, ms, r) ==
    /\ budget > 0
    /\ budget' = budget - 1
    /\ industrialMachines' = ms
    /\ edgeNodes' = reg.nodes
    /\ mlModels' = reg.models
    /\ systemInitialized' = reg.init
    /\ eret' = r
    /\ UNCHANGED motorVars

\* The indices of the machines whose run flag is set
Running(ms) == {i \in 0..(Len(ms) - 1) : ms[i + 1].isRunning}

RECURSIVE SumOver(_, _, _)
SumOver(ms, f, I) ==
    IF I = {} THEN 0
    ELSE LET i == CHOOSE j \in I : TRUE
         IN  ms[i + 1][f] + SumOver(ms, f, I \ {i})

Counted(reg, op, n) == Leaves(reg, reg.machines, [NoCall EXCEPT !.op = op, !.value = n])

\* int GetIndustrialMachineCount()
GetIndustrialMachineCount ==
    \E wh \in WorkingHoursValues :
        Counted(Initialized(wh), "GetIndustrialMachineCount", Len(Initialized(wh).machines))

\* int GetEdgeNodeCount()
GetEdgeNodeCount ==
    \E wh \in WorkingHoursValues :
        Counted(Initialized(wh), "GetEdgeNodeCount", Len(Initialized(wh).nodes))

\* int GetMLModelCount()
GetMLModelCount ==
    \E wh \in WorkingHoursValues :
        Counted(Initialized(wh), "GetMLModelCount", Len(Initialized(wh).models))

MachineInfo(reg, kind, index) ==
    Leaves(reg, reg.machines,
           [NoCall EXCEPT !.op = kind, !.index = index,
                          !.value = IF ValidIndex(index, Len(reg.machines))
                                    THEN reg.machines[index + 1][kind]
                                    ELSE InfoSentinel(kind)])

\* GetMachineId / GetMachineName / GetMachineType / GetMachineRunning (index)
GetMachineInfo(kind, index) ==
    \E wh \in WorkingHoursValues : MachineInfo(Initialized(wh), kind, index)

\* updateMachinePhysics(machine, 1.0); return machine.<kind> + noise;
ReadMachine(reg, old, mc, kind, index, sf, n) ==
    Leaves(reg, [reg.machines EXCEPT ![index + 1] = mc],
           [op |-> kind, index |-> index,
            value |-> mc[kind] + n * NoiseAmplitude(kind),
            called |-> {index},
            updated |-> IF old.isRunning THEN {index} ELSE {},
            ambient |-> AmbientTemp(sf)])

\* Variant: the call updates every running machine, not machine index alone
MachineReadingOfAll(reg, kind, index, sf, n) ==
    IF ValidIndex(index, Len(reg.machines))
    THEN Leaves(reg,
                [i \in 1..Len(reg.machines) |->
                    updateMachinePhysics(reg.machines[i], 1, sf)],
                [op |-> kind, index |-> index,
                 value |-> updateMachinePhysics(reg.machines[index + 1], 1, sf)[kind]
                              + n * NoiseAmplitude(kind),
                 called |-> {index},
                 updated |-> IF reg.machines[index + 1].isRunning THEN {index} ELSE {},
                 ambient |-> AmbientTemp(sf)])
    ELSE Leaves(reg, reg.machines, [NoCall EXCEPT !.op = kind, !.index = index])

MachineReading(reg, kind, index, sf, n) ==
    IF ValidIndex(index, Len(reg.machines))
    THEN ReadMachine(reg, reg.machines[index + 1],
                     updateMachinePhysics(reg.machines[index + 1], 1, sf), kind, index, sf, n)
    ELSE Leaves(reg, reg.machines, [NoCall EXCEPT !.op = kind, !.index = index])

\* The season matters only to a call that reaches updateMachinePhysics
ReadSeasons(reg, index) ==
    IF ValidIndex(index, Len(reg.machines)) THEN SeasonalFactors ELSE {0}

\* random_double(-a, a) is read only for a valid index
ReadNoise(reg, kind, index) ==
    IF ValidIndex(index, Len(reg.machines)) /\ NoiseAmplitude(kind) > 0
    THEN NoiseSigns ELSE {0}

\* GetMachineSpeed ... GetMachineMaintenanceStatus (index)
GetMachineReading(kind, index) ==
    \E wh \in WorkingHoursValues :
        \E sf \in ReadSeasons(Initialized(wh), index),
           n \in ReadNoise(Initialized(wh), kind, index) :
            MachineReading(Initialized(wh), kind, index, sf, n)

\* for (auto& machine : industrialMachines) if (machine.isRunning) update
UpdateRunning(ms, sf) ==
    [i \in 1..Len(ms) |-> IF ms[i].isRunning THEN updateMachinePhysics(ms[i], 1, sf) ELSE ms[i]]

\* for (auto& machine : industrialMachines) update
UpdateAll(ms, sf) == [i \in 1..Len(ms) |-> updateMachinePhysics(ms[i], 1, sf)]

OverallEfficiency(reg, ms, run, sf) ==
    Leaves(reg, ms,
           [op |-> "GetSystemOverallEfficiency", index |-> 0,
            value |-> IF run # {}
                      THEN Quot(SumOver(ms, "efficiency", run), Cardinality(run))
                      ELSE 0,
            called |-> run, updated |-> run, ambient |-> AmbientTemp(sf)])

\* double GetSystemOverallEfficiency(): updates and averages the running machines
GetSystemOverallEfficiency ==
    \E wh \in WorkingHoursValues, sf \in SeasonalFactors :
        OverallEfficiency(Initialized(wh), UpdateRunning(Initialized(wh).machines, sf),
                          Running(Initialized(wh).machines), sf)

TotalPowerConsumption(reg, ms, run, sf) ==
    Leaves(reg, ms,
           [op |-> "GetSystemTotalPowerConsumption", index |-> 0,
            value |-> SumOver(ms, "powerConsumption", run),
            called |-> run, updated |-> run, ambient |-> AmbientTemp(sf)])

\* double GetSystemTotalPowerConsumption(): updates and sums the running machines
GetSystemTotalPowerConsumption ==
    \E wh \in WorkingHoursValues, sf \in SeasonalFactors :
        TotalPowerConsumption(Initialized(wh), UpdateRunning(Initialized(wh).machines, sf),
                              Running(Initialized(wh).machines), sf)

HealthScore(reg, ms, run, sf) ==
    Leaves(reg, ms,
           [op |-> "GetSystemHealthScore", index |-> 0,
            value |-> IF Len(ms) = 0 THEN 0
                      ELSE Quot(Quot(SumOver(ms, "healthScore", 0..(Len(ms) - 1)), Len(ms)),
                                1000),
            called |-> 0..(Len(ms) - 1), updated |-> run, ambient |-> AmbientTemp(sf)])

\* int GetSystemHealthScore(): calls updateMachinePhysics on every machine
GetSystemHealthScore ==
    \E wh \in WorkingHoursValues, sf \in SeasonalFactors :
        HealthScore(Initialized(wh), UpdateAll(Initialized(wh).machines, sf),
                    Running(Initialized(wh).machines), sf)

SwitchMachine(reg, op, index, run) ==
    Leaves(reg,
           IF ValidIndex(index, Len(reg.machines))
           THEN [reg.machines EXCEPT ![index + 1].isRunning = run]
           ELSE reg.machines,
           [NoCall EXCEPT !.op = op, !.index = index])

\* void StartMachine(int index)
StartMachine(index) ==
    \E wh \in WorkingHoursValues : SwitchMachine(Initialized(wh), "StartMachine", index, TRUE)

\* void StopMachine(int index)
StopMachine(index) ==
    \E wh \in WorkingHoursValues : SwitchMachine(Initialized(wh), "StopMachine", index, FALSE)

\* Variant: the call sets currentSpeed along with targetSpeed
StoreBothSpeeds(reg, index, speed) ==
    Leaves(reg,
           IF ValidIndex(index, Len(reg.machines))
           THEN [reg.machines EXCEPT ![index + 1].targetSpeed = speed,
                                     ![index + 1].currentSpeed = speed]
           ELSE reg.machines,
           [NoCall EXCEPT !.op = "SetMachineTargetSpeed", !.index = index])

StoreTargetSpeed(reg, index, speed) ==
    Leaves(reg,
           IF ValidIndex(index, Len(reg.machines))
           THEN [reg.machines EXCEPT ![index + 1].targetSpeed = speed]
           ELSE reg.machines,
           [NoCall EXCEPT !.op = "SetMachineTargetSpeed", !.index = index])

\* void SetMachineTargetSpeed(int index, double speed)
SetMachineTargetSpeed(index, speed) ==
    \E wh \in WorkingHoursValues : StoreTargetSpeed(Initialized(wh), index, speed)

\* The exported functions that never reach initializeIndustrialSystem():
\* GetIsWorkingHours, GetSeasonalFactor, and legacy getters such as
\* GetOperatingHours, which returns 0
RegistryFree(op, v) ==
    Leaves(Registry, industrialMachines, [NoCall EXCEPT !.op = op, !.value = v])

\* bool GetIsWorkingHours()
GetIsWorkingHours ==
    \E c \in ClockReadings :
        RegistryFree("GetIsWorkingHours", isWorkingHours(c[1], c[2]))

\* double GetSeasonalFactor()
GetSeasonalFactor == \E sf \in SeasonalFactors : RegistryFree("GetSeasonalFactor", sf)

\* int GetOperatingHours(): "Legacy function - always returns 0"
GetOperatingHours == RegistryFree("GetOperatingHours", 0)

\* Variant: "machine.operatingHours = 0.0" is missing
ResetKeepingHours(mc) ==
    [mc EXCEPT !.bearingWear = 0, !.oilDegradation = 0,
               !.healthScore = 95000, !.maintenanceStatus = 0]

\* One machine after ResetMotorState
ResetMachine(mc) ==
    [mc EXCEPT !.bearingWear = 0, !.oilDegradation = 0, !.operatingHours = 0,
               !.healthScore = 95000, !.maintenanceStatus = 0]

ResetAll(reg) ==
    Leaves(reg, [i \in 1..Len(reg.machines) |-> ResetMachine(reg.machines[i])],
           [NoCall EXCEPT !.op = "ResetMotorState"])

\* void ResetMotorState() of the multi-machine engine
EnhResetMotorState == \E wh \in WorkingHoursValues : ResetAll(Initialized(wh))

---------------------------------------------------------------------------
(* Multi-machine engine: edge nodes and ML models                          *)

\* cos of x milliradians, in 1/1000
CosMilli(x) == SinMilli(x + 1571)

\* The values of rand() one updateEdgeNodePerformance reads, in call order
EdgeDraws ==
    { [cpu |-> 0, mem |-> 0, lat |-> 0, proc |-> 0],
      [cpu |-> 19, mem |-> 14, lat |-> 9, proc |-> 29] }

\* The values of rand() one updateMLModelPredictions reads, in call order
MLDraws == { [acc |-> 0, conf |-> 0], [acc |-> 19, conf |-> 9] }

\* The four performance figures of an online node, each clamped
EdgePerformance(node, elapsedSeconds, d) ==
    [node EXCEPT
        !.cpuUsage = Clamp(20000, 90000,
                           45000 + SinMilli(elapsedSeconds * 100) * 10
                                 + ((d.cpu % 20) - 10) * 1000),
        !.memoryUsage = Clamp(30000, 95000,
                              60000 + CosMilli(elapsedSeconds * 50) * 15
                                    + ((d.mem % 15) - 7) * 1000),
        !.networkLatency = Clamp(5000, 50000,
                                 15000 + SinMilli(elapsedSeconds * 200) * 5
                                       + ((d.lat % 10) - 5) * 1000),
        !.processingTime = Clamp(20000, 150000,
                                 50000 + CosMilli(elapsedSeconds * 150) * 20
                                       + ((d.proc % 30) - 15) * 1000),
        !.lastSync = 1]

\* Variant: the early return for an offline node is missing
updateEdgeNodeEvenOffline(node, elapsedSeconds, d) ==
    EdgePerformance(node, elapsedSeconds, d)

\* updateEdgeNodePerformance(node, elapsedSeconds): if (!node.isOnline) return;
updateEdgeNodePerformance(node, elapsedSeconds, d) ==
    IF node.isOnline THEN EdgePerformance(node, elapsedSeconds, d) ELSE node

\* avgHealth: the sum of the health scores over industrialMachines.size()
AverageHealth(ms) == Quot(SumOver(ms, "healthScore", 0..(Len(ms) - 1)), Len(ms))

\* Variant: the failure probability is added to the stored one
updateMLModelAccumulating(model, elapsedSeconds, avgHealth, d) ==
    [model EXCEPT
        !.predictionCount = @ + 1,
        !.accuracy = Clamp(85000, 98000, @ + ((d.acc % 20) - 10) * 10),
        !.confidence = Clamp(700, 950, @ + ((d.conf % 10) - 5) * 10),
        !.failureProbability = Clamp(0, 15000, @ + Quot((100000 - avgHealth) * 2, 10)),
        !.remainingUsefulLife = Max(108000, @ - elapsedSeconds)]

\* updateMLModelPredictions(model, elapsedSeconds)
updateMLModelPredictions(model, elapsedSeconds, avgHealth, d) ==
    [model EXCEPT
        !.predictionCount = @ + 1,
        !.accuracy = Clamp(85000, 98000, @ + ((d.acc % 20) - 10) * 10),
        !.confidence = Clamp(700, 950, @ + ((d.conf % 10) - 5) * 10),
        !.failureProbability = Clamp(0, 15000, Quot((100000 - avgHealth) * 2, 10)),
        !.remainingUsefulLife = Max(108000, @ - elapsedSeconds)]

\* Index arguments of the edge-node accessors: below range, an online node,
\* the offline backup node, one past the end
NodeIndices == {-1, 0, 8, 9}

\* Index arguments of the ML-model accessors
ModelIndices == {-1, 0, 6}

\* GetEdgeNodeId, GetEdgeNodeName: the field read and the sentinel
EdgeInfos ==
    { [op |-> "GetEdgeNodeId", field |-> "id", sentinel |-> <<"UNKNOWN">>],
      [op |-> "GetEdgeNodeName", field |-> "name", sentinel |-> <<"Unknown Node">>] }

\* GetEdgeNodeCpuUsage ... GetEdgeNodeProcessingTime: the field read and the
\* amplitude of the random_double noise
EdgeReadings ==
    { [op |-> "GetEdgeNodeCpuUsage", field |-> "cpuUsage", noise |-> 2000],
      [op |-> "GetEdgeNodeMemoryUsage", field |-> "memoryUsage", noise |-> 2000],
      [op |-> "GetEdgeNodeNetworkLatency", field |-> "networkLatency", noise |-> 1000],
      [op |-> "GetEdgeNodeProcessingTime", field |-> "processingTime", noise |-> 5000] }

\* GetMLModelId, GetMLModelName
MLInfos ==
    { [op |-> "GetMLModelId", field |-> "modelId", sentinel |-> "UNKNOWN"],
      [op |-> "GetMLModelName", field |-> "modelName", sentinel |-> "Unknown Model"] }

\* GetMLModelAccuracy ... GetMLModelRemainingUsefulLife
MLReadings ==
    { [op |-> "GetMLModelAccuracy", field |-> "accuracy", noise |-> 500],
      [op |-> "GetMLModelConfidence", field |-> "confidence", noise |-> 20],
      [op |-> "GetMLModelFailureProbability", field |-> "failureProbability", noise |-> 100],
      [op |-> "GetMLModelRemainingUsefulLife", field |-> "remainingUsefulLife",
       noise |-> 3600] }

\* The call leaves the edge nodes ns and the models mls and reports r
LeavesAll(reg, ns, mls, r) ==
    /\ budget > 0
    /\ budget' = budget - 1
    /\ industrialMachines' = reg.machines
    /\ edgeNodes' = ns
    /\ mlModels' = mls
    /\ systemInitialized' = reg.init
    /\ eret' = r
    /\ UNCHANGED motorVars

\* A call that reads col[index + 1][a.field], or returns a.sentinel
InfoOf(reg, col, a, index) ==
    LeavesAll(reg, reg.nodes, reg.models,
              [NoCall EXCEPT !.op = a.op, !.index = index,
                             !.value = IF ValidIndex(index, Len(col))
                                       THEN col[index + 1][a.field]
                                       ELSE a.sentinel])

\* const char* GetEdgeNodeId(int index), GetEdgeNodeName(int index)
GetEdgeNodeInfo(a, index) ==
    \E wh \in WorkingHoursValues : InfoOf(Initialized(wh), Initialized(wh).nodes, a, index)

\* const char* GetMLModelId(int index), GetMLModelName(int index)
GetMLModelInfo(a, index) ==
    \E wh \in WorkingHoursValues : InfoOf(Initialized(wh), Initialized(wh).models, a, index)

\* updateEdgeNodePerformance(node, 1.0); return node.<field> + noise;
ReadEdgeNode(reg, node, a, index, n) ==
    LeavesAll(reg, [reg.nodes EXCEPT ![index + 1] = node], reg.models,
              [NoCall EXCEPT !.op = a.op, !.index = index,
                             !.value = node[a.field] + n * a.noise])

\* Variant: an index out of range falls back to the first node, which is
\* updated before 0.0 is returned
EdgeReadingFallsBack(reg, a, index, d, n) ==
    IF ValidIndex(index, Len(reg.nodes))
    THEN ReadEdgeNode(reg, updateEdgeNodePerformance(reg.nodes[index + 1], 1, d), a, index, n)
    ELSE LeavesAll(reg, [reg.nodes EXCEPT ![1] = updateEdgeNodePerformance(@, 1, d)],
                   reg.models, [NoCall EXCEPT !.op = a.op, !.index = index])

EdgeNodeReading(reg, a, index, d, n) ==
    IF ValidIndex(index, Len(reg.nodes))
    THEN ReadEdgeNode(reg, updateEdgeNodePerformance(reg.nodes[index + 1], 1, d), a, index, n)
    ELSE LeavesAll(reg, reg.nodes, reg.models, [NoCall EXCEPT !.op = a.op, !.index = index])

\* rand() and random_double are read only for a valid index
DrawsFor(index, size, draws) ==
    IF ValidIndex(index, size) THEN draws \X NoiseSigns ELSE {<<CHOOSE d \in draws : TRUE, 0>>}

\* double GetEdgeNodeCpuUsage(int index) ... GetEdgeNodeProcessingTime(int index)
GetEdgeNodeReading(a, index) ==
    \E wh \in WorkingHoursValues :
        \E dn \in DrawsFor(index, Len(Initialized(wh).nodes), EdgeDraws) :
            EdgeNodeReading(Initialized(wh), a, index, dn[1], dn[2])

\* updateMLModelPredictions(model, 1.0); return model.<field> + noise;
ReadMLModel(reg, model, a, index, n) ==
    LeavesAll(reg, reg.nodes, [reg.models EXCEPT ![index + 1] = model],
              [NoCall EXCEPT !.op = a.op, !.index = index,
                             !.value = model[a.field] + n * a.noise])

MLModelReading(reg, a, index, d, n) ==
    IF ValidIndex(index, Len(reg.models))
    THEN ReadMLModel(reg,
                     updateMLModelPredictions(reg.models[index + 1], 1,
                                              AverageHealth(reg.machines), d),
                     a, index, n)
    ELSE LeavesAll(reg, reg.nodes, reg.models, [NoCall EXCEPT !.op = a.op, !.index = index])

\* double GetMLModelAccuracy(int index) ... GetMLModelRemainingUsefulLife(int index)
GetMLModelReading(a, index) ==
    \E wh \in WorkingHoursValues :
        \E dn \in DrawsFor(index, Len(Initialized(wh).models), MLDraws) :
            MLModelReading(Initialized(wh), a, index, dn[1], dn[2])

---------------------------------------------------------------------------
(* Specifications                                                          *)

Init == InitMotorVars /\ InitEnhVars(MaxCalls)

InitDrive == InitMotorVars /\ InitEnhVars(MaxDriveCalls)

InitIndexed == InitMotorVars /\ InitEnhVars(MaxIndexedCalls)

NextMotor ==
    \/ \E f \in ObservedFields : MotorAccessor(f)
    \/ \E i \in MotorIndices : GetMachineRunning(i)
    \/ \E i \in MotorIndices : GetMachineLoad(i)
    \/ StartMotor
    \/ StopMotor
    \/ ResetMotorState
    \/ ResetPhysicsUpdateFlag
    \/ TestEngine

NextEnh ==
    \/ GetIndustrialMachineCount
    \/ GetEdgeNodeCount
    \/ GetMLModelCount
    \/ \E k \in MachineInfos, i \in EnhIndices : GetMachineInfo(k, i)
    \/ \E k \in MachineReadings, i \in EnhIndices : GetMachineReading(k, i)
    \/ GetSystemOverallEfficiency
    \/ GetSystemTotalPowerConsumption
    \/ GetSystemHealthScore
    \/ \E i \in EnhIndices : StartMachine(i)
    \/ \E i \in EnhIndices : StopMachine(i)
    \/ \E i \in EnhIndices, v \in TargetSpeeds : SetMachineTargetSpeed(i, v)
    \/ EnhResetMotorState
    \/ GetIsWorkingHours
    \/ GetSeasonalFactor
    \/ GetOperatingHours

\* The single-motor engine and its caller
SpecMotor == Init /\ [][NextMotor]_vars

\* A caller that drives the main motor: it sets the target speed, reads the
\* speed, and resets
NextDrive ==
    \/ \E v \in DriveTargetSpeeds : SetMachineTargetSpeed(0, v)
    \/ GetMachineReading("currentSpeed", 0)
    \/ EnhResetMotorState

\* A long run of the single-motor engine at one operating point
InitWear ==
    /\ motor = ZeroMotor
    /\ initialized = FALSE
    /\ physicsUpdatedThisReading = FALSE
    /\ elapsed = 0
    /\ ret = NoReturn
    /\ seen = NoSeen
    /\ passes = 0
    /\ called = FALSE
    /\ ticks = 0
    /\ gen \in WearDraws
    /\ threads = [t \in Threads |-> IdleThread]
    /\ InitEnhVars(0)

NextWear ==
    \/ GetBearingHealth
    \/ ResetAfterReading
    \/ ResetMotorState

SpecWear == InitWear /\ [][NextWear]_vars

\* The multi-machine engine and its caller
SpecEnh == Init /\ [][NextEnh]_vars

\* A caller of the indexed accessors of machines, edge nodes and ML models
NextIndexed ==
    \/ \E k \in MachineInfos, i \in EnhIndices : GetMachineInfo(k, i)
    \/ \E k \in MachineReadings, i \in EnhIndices : GetMachineReading(k, i)
    \/ \E a \in EdgeInfos, i \in NodeIndices : GetEdgeNodeInfo(a, i)
    \/ \E a \in EdgeReadings, i \in NodeIndices : GetEdgeNodeReading(a, i)
    \/ \E a \in MLInfos, i \in ModelIndices : GetMLModelInfo(a, i)
    \/ \E a \in MLReadings, i \in ModelIndices : GetMLModelReading(a, i)
    \/ GetSystemHealthScore
    \/ \E i \in EnhIndices : StopMachine(i)

\* The multi-machine engine and the caller of its indexed accessors
SpecIndexed == InitIndexed /\ [][NextIndexed]_vars

\* The multi-machine engine and the caller that drives the main motor
SpecDrive == InitDrive /\ [][NextDrive]_vars

\* The calculations of the single-motor engine start from an initialized motor
InitStrata ==
    /\ motor \in PriorMotors
    /\ initialized = TRUE
    /\ physicsUpdatedThisReading = FALSE
    /\ elapsed = 0
    /\ ret = NoReturn
    /\ seen = NoSeen
    /\ passes = 0
    /\ called = FALSE
    /\ ticks = 0
    /\ gen = BaseDraw
    /\ threads = [t \in Threads |-> IdleThread]
    /\ InitEnhVars(MaxStrataCalls)

NextStrata ==
    \/ ApplyCalculateTemperature
    \/ ApplyCalculateEfficiency
    \/ ApplyPhysicsPass

\* The stratified calculations of the single-motor engine, applied on their own
SpecStrata == InitStrata /\ [][NextStrata]_vars

InitThreads == InitMotorVars /\ InitEnhVars(MaxThreadCalls)

NextThreads ==
    \/ \E t \in Threads, f \in ThreadFields : EnterAccessor(t, f)
    \/ \E t \in Threads : RunPass(t)
    \/ \E t \in Threads : ReturnFromAccessor(t)
    \/ ResetBetweenReadings

\* The single-motor engine with two threads calling accessors concurrently
SpecThreads == InitThreads /\ [][NextThreads]_vars

---------------------------------------------------------------------------
(* Claims about the single-motor engine (SpecMotor)                        *)

\* C1: between two consecutive ResetPhysicsUpdateFlag calls the full physics
\* pass runs at most once, however many accessor or Start/Stop calls are
\* made, and exactly once if at least one such call is made; the flag is set
\* only by a completed pass and cleared only by ResetPhysicsUpdateFlag.
C1_PassOncePerTick ==
    /\ [](/\ passes <= 1
          /\ (called => passes = 1)
          /\ (physicsUpdatedThisReading <=> passes = 1))
    /\ [][/\ (~physicsUpdatedThisReading /\ physicsUpdatedThisReading')
                => passes' = passes + 1
          /\ (physicsUpdatedThisReading /\ ~physicsUpdatedThisReading')
                => ret'.op = "ResetPhysicsUpdateFlag"]_vars

\* C1 case: in the tick after a reset, an accessor, then a Start/Stop, then
\* another accessor have been called, and one pass has run
C1_ManyCallsOnePass ==
    /\ ticks = 1
    /\ passes = 1
    /\ seen.field = "speed"
    /\ seen.switched
    /\ ret.op = "get"
    /\ ret.field = "temperature"

\* C2 as stated: for every field, two accessor calls of the same tick return
\* identical values, whatever calls occur in between.
C2_SameTickSameValue ==
    (ret.op = "get" /\ seen.field = ret.field) => ret.value = seen.value

\* C2 amended: two accessor calls of the same tick return identical values
\* for every field except the run flag; GetMachineRunning returns identical
\* values when no StartMotor / StopMotor call occurs between the two calls.
C2_SameTickSameValueUnlessSwitched ==
    (/\ ret.op = "get"
     /\ seen.field = ret.field
     /\ ~(ret.field = "isRunning" /\ seen.switched))
        => ret.value = seen.value

\* C2 case: the temperature is read, a Start/Stop call is made, and the
\* temperature is read again in the same tick
C2_SecondReadSameTick ==
    /\ ticks = 1
    /\ ret.op = "get"
    /\ ret.field = "temperature"
    /\ seen.field = "temperature"
    /\ seen.switched

\* C3: at every accessor return all stored readings come from one pass: rpm
\* equals speed, the derived readings (torque, voltage, current, pressures,
\* strain gauges, ...) equal their formulas applied to the stored speed,
\* temperature and vibration, and systemHealth and maintenanceStatus equal
\* their formulas applied to the stored efficiency, vibration, temperature,
\* wear and oil degradation.
C3_ReadingsFromOnePass ==
    ret.op = "get" =>
        /\ motor.rpm = motor.speed
        /\ DerivedReadings(motor) = motor
        /\ motor.systemHealth = SystemHealth(motor)
        /\ motor.maintenanceStatus = MotorMaintenanceStatus(motor)

\* C3 case: the torque is read in the tick after a reset, from a pass that
\* moved the speed off its seed and found a Warning or Critical condition
C3_TorqueReadAfterPass ==
    /\ ticks = 1
    /\ ret.op = "get"
    /\ ret.field = "torque"
    /\ motor.speed # BASE_SPEED
    /\ motor.maintenanceStatus \in {1, 2}

---------------------------------------------------------------------------
(* Claims about the multi-machine engine (SpecEnh, SpecDrive)              *)

\* The machine at index i, indices counting from 0 as in the API
MachineAt(i) == industrialMachines[i + 1]

\* 1 motor, 3 pumps, 2 conveyors, 2 compressors, 2 fans, 2 generators,
\* 1 turbine, 1 crusher, 2 mixers, 1 press; indexed by MachineType + 1
TypeCounts == <<1, 3, 2, 2, 2, 2, 1, 1, 2, 1>>

RegistryShape ==
    /\ Len(industrialMachines) = 17
    /\ \A t \in 0..9 :
          Cardinality({i \in DOMAIN industrialMachines : industrialMachines[i].type = t})
              = TypeCounts[t + 1]
    /\ Len(edgeNodes) = 9
    /\ Len(mlModels) = 6

RegistryFreeOps == {"GetIsWorkingHours", "GetSeasonalFactor", "GetOperatingHours"}

\* A step of an initialized registry re-populates and re-seeds nothing: the
\* entities keep their number and identity, operating hours fall only by
\* ResetMotorState, a target speed changes only by SetMachineTargetSpeed and
\* a run flag only by StartMachine / StopMachine
NoReseed ==
    /\ systemInitialized'
    /\ Len(industrialMachines') = Len(industrialMachines)
    /\ [i \in DOMAIN edgeNodes' |-> edgeNodes'[i].id] = [i \in DOMAIN edgeNodes |-> edgeNodes[i].id]
    /\ [i \in DOMAIN mlModels' |-> mlModels'[i].modelId]
          = [i \in DOMAIN mlModels |-> mlModels[i].modelId]
    /\ \A i \in DOMAIN industrialMachines :
          /\ industrialMachines'[i].id = industrialMachines[i].id
          /\ industrialMachines'[i].name = industrialMachines[i].name
          /\ industrialMachines'[i].type = industrialMachines[i].type
          /\ \/ industrialMachines'[i].operatingHours >= industrialMachines[i].operatingHours
             \/ eret'.op = "ResetMotorState"
          /\ \/ industrialMachines'[i].targetSpeed = industrialMachines[i].targetSpeed
             \/ eret'.op = "SetMachineTargetSpeed"
          /\ \/ industrialMachines'[i].isRunning = industrialMachines[i].isRunning
             \/ eret'.op \in {"StartMachine", "StopMachine"}

\* C4 as stated: after the first API call, and after any further calls, the
\* registry holds exactly 17 machines (1 motor, 3 pumps, 2 conveyors,
\* 2 compressors, 2 fans, 2 generators, 1 turbine, 1 crusher, 2 mixers,
\* 1 press), 9 edge nodes and 6 ML models.
C4_SeededAfterFirstCall == eret.op # "none" => RegistryShape

\* C4 amended: after the first API call that reaches
\* initializeIndustrialSystem (every call except GetIsWorkingHours,
\* GetSeasonalFactor and the legacy getters that return constants), and after
\* any further calls, the registry holds exactly the 17 machines, 9 edge
\* nodes and 6 ML models; later calls never re-populate or re-seed an entity.
C4_SeededOnceByRegistryCalls ==
    /\ [](/\ systemInitialized => RegistryShape
          /\ eret.op \notin (RegistryFreeOps \cup {"none"}) => systemInitialized)
    /\ [][systemInitialized => NoReseed]_vars

\* C4 case: the machine count is read as the last of several calls, after the
\* main motor was updated
C4_CountAfterUpdates ==
    /\ budget = 0
    /\ eret.op = "GetIndustrialMachineCount"
    /\ eret.value = 17
    /\ MachineAt(0).operatingHours > 0

\* The ranges of C5 for one machine
InRange(mc, ambient) ==
    /\ 70000 <= mc.efficiency /\ mc.efficiency <= 96000
    /\ 500 <= mc.vibration /\ mc.vibration <= 8000
    /\ ambient <= mc.temperature /\ mc.temperature <= 120000
    /\ 0 <= mc.healthScore /\ mc.healthScore <= 100000
    /\ 200 <= mc.load /\ mc.load <= 1000

\* C5 as stated: for all machines, after any call of updateMachinePhysics on
\* the machine, 70 <= efficiency <= 96, 0.5 <= vibration <= 8.0,
\* ambient <= temperature <= 120, 0 <= healthScore <= 100, 0.2 <= load <= 1.0.
C5_CalledInRange ==
    \A i \in eret.called : InRange(MachineAt(i), eret.ambient)

\* C5 amended: the ranges hold after every call of updateMachinePhysics on a
\* machine whose run flag is set; on a stopped machine the call returns at
\* once and the machine keeps its stored values.
C5_UpdatedInRange ==
    \A i \in eret.updated : InRange(MachineAt(i), eret.ambient)

\* C5 case: one call has updated a backup generator that was started and the
\* main motor
C5_StartedGeneratorUpdated ==
    /\ 10 \in eret.updated
    /\ 0 \in eret.updated
    /\ MachineAt(10).load >= 200

\* The bearing wear of machine i before the step; a fresh registry seeds 0
WearBefore(i) == IF systemInitialized THEN MachineAt(i).bearingWear ELSE 0

\* The oil degradation of machine i before the step; a fresh registry seeds 0
OilBefore(i) == IF systemInitialized THEN MachineAt(i).oilDegradation ELSE 0

\* C6: for any sequence of accessor and control calls (Start/Stop,
\* SetMachineTargetSpeed with any value) the bearingWear of a running machine
\* never decreases from one physics update to the next, except across
\* ResetMotorState.
C6_WearNeverDecreases ==
    [][/\ \A i \in eret'.updated : industrialMachines'[i + 1].bearingWear >= WearBefore(i)
       /\ (systemInitialized /\ eret'.op # "ResetMotorState")
             => \A i \in DOMAIN industrialMachines :
                   industrialMachines'[i].bearingWear >= industrialMachines[i].bearingWear]_vars

\* C7: for any sequence of accessor and control calls the oilDegradation of a
\* running machine never decreases from one physics update to the next,
\* except across ResetMotorState; the increment of every update is positive.
C7_OilNeverDecreases ==
    [][/\ \A i \in eret'.updated : industrialMachines'[i + 1].oilDegradation > OilBefore(i)
       /\ (systemInitialized /\ eret'.op # "ResetMotorState")
             => \A i \in DOMAIN industrialMachines :
                   industrialMachines'[i].oilDegradation
                       >= industrialMachines[i].oilDegradation]_vars

\* C7 case: the main motor has been updated for the second time, its target
\* speed set in between
C7_SecondUpdate ==
    /\ 0 \in eret.updated
    /\ MachineAt(0).operatingHours = 2
    /\ MachineAt(0).targetSpeed # 2500000
    /\ MachineAt(0).oilDegradation > 0

\* C8: in every reachable state of both engines bearing wear and oil
\* degradation lie in [0, 1], for every machine and for the single motor.
C8_WearAndOilInUnitRange ==
    /\ \A i \in DOMAIN industrialMachines :
          /\ 0 <= industrialMachines[i].bearingWear
          /\ industrialMachines[i].bearingWear <= 1000000000
          /\ 0 <= industrialMachines[i].oilDegradation
          /\ industrialMachines[i].oilDegradation <= 1000000000
    /\ 0 <= motor.bearingWear /\ motor.bearingWear <= 1000000
    /\ 0 <= motor.oilDegradation /\ motor.oilDegradation <= 1000000

\* The Critical and Warning conditions as C9 states them
StatedCritical(mc) ==
    \/ mc.bearingWear > 100000000
    \/ mc.oilDegradation > 50000000
    \/ mc.temperature > 90000
    \/ mc.vibration > 3000

StatedWarning(mc) ==
    \/ mc.bearingWear > 50000000
    \/ mc.oilDegradation > 20000000
    \/ mc.temperature > 80000
    \/ mc.vibration > 2500
    \/ mc.efficiency < 85000

\* C9: after a physics update of a running machine, maintenanceStatus is
\* Critical (2) iff bearingWear > 0.1 or oilDegradation > 0.05 or
\* temperature > 90 or vibration > 3.0, whatever the Warning and
\* MaintenanceDue conditions; it is Warning (1) iff no Critical condition
\* holds and bearingWear > 0.05 or oilDegradation > 0.02 or temperature > 80
\* or vibration > 2.5 or efficiency < 85.
C9_CriticalThenWarning ==
    \A i \in eret.updated :
        /\ MachineAt(i).maintenanceStatus = 2 <=> StatedCritical(MachineAt(i))
        /\ MachineAt(i).maintenanceStatus = 1
              <=> (~StatedCritical(MachineAt(i)) /\ StatedWarning(MachineAt(i)))

\* C9 case: one call has updated a machine that is Critical while a Warning
\* and the MaintenanceDue condition hold too, and a machine that is Warning
C9_CriticalAndWarningSeen ==
    \E i, j \in eret.updated :
        /\ MachineAt(i).maintenanceStatus = 2
        /\ StatedWarning(MachineAt(i))
        /\ MaintenanceDueCondition(MachineAt(i))
        /\ MachineAt(j).maintenanceStatus = 1

\* floor(operatingHours), the hours kept in seconds
FloorHours(mc) == mc.operatingHours \div 3600

\* C10: after a physics update of a running machine with no Critical and no
\* Warning condition, maintenanceStatus is MaintenanceDue (3) iff
\* floor(operatingHours) is a positive multiple of 100, and Good (0)
\* otherwise; in particular it is Good while 0 < operatingHours < 100.
C10_DueOnlyAtPositiveMultiples ==
    \A i \in eret.updated :
        (~StatedCritical(MachineAt(i)) /\ ~StatedWarning(MachineAt(i)))
            => MachineAt(i).maintenanceStatus
                  = IF FloorHours(MachineAt(i)) > 0 /\ FloorHours(MachineAt(i)) % 100 = 0
                    THEN 3 ELSE 0

---------------------------------------------------------------------------
(* Claims about resets, indices and control calls                          *)

\* The fields ResetMotorState restores
RestoredFields ==
    {"bearingWear", "oilDegradation", "operatingHours", "healthScore", "maintenanceStatus"}

\* Machine i agrees with mc on every field that is not restored
KeepsOf(i, mc) ==
    \A f \in (DOMAIN mc) \ RestoredFields : industrialMachines'[i][f] = mc[f]

\* C11: immediately after ResetMotorState, called in any reachable state,
\* every machine has bearingWear = 0, oilDegradation = 0, operatingHours = 0,
\* healthScore = 95 and maintenanceStatus = Good, and every machine's id, name,
\* type, run flag, current / target speed, temperature (and every other field)
\* and all edge-node and ML-model state are unchanged; on a registry that was
\* never populated they are the seeds the call's initialization gives them.
C11_ResetRestoresAndKeeps ==
    [][eret'.op = "ResetMotorState" =>
          /\ Len(industrialMachines') = 17
          /\ \A i \in DOMAIN industrialMachines' :
                /\ industrialMachines'[i].bearingWear = 0
                /\ industrialMachines'[i].oilDegradation = 0
                /\ industrialMachines'[i].operatingHours = 0
                /\ industrialMachines'[i].healthScore = 95000
                /\ industrialMachines'[i].maintenanceStatus = 0
          /\ systemInitialized =>
                /\ \A i \in DOMAIN industrialMachines : KeepsOf(i, industrialMachines[i])
                /\ edgeNodes' = edgeNodes
                /\ mlModels' = mlModels
          /\ ~systemInitialized =>
                /\ \E wh \in BOOLEAN :
                      \A i \in DOMAIN industrialMachines' : KeepsOf(i, SeededMachines(wh)[i])
                /\ edgeNodes' = SeededEdgeNodes
                /\ mlModels' = SeededMLModels]_vars

\* C11 case: ResetMotorState has been called after updates that moved the main
\* motor's temperature off its seed and after a backup generator was started
C11_ResetAfterUpdates ==
    /\ eret.op = "ResetMotorState"
    /\ MachineAt(0).temperature # mainMotor.temperature
    /\ MachineAt(10).isRunning
    /\ MachineAt(0).operatingHours = 0

\* C12: single-motor engine: ResetMotorState, called after any number of
\* physics passes, restores the motor's bearingWear, oilDegradation,
\* operatingHours, systemHealth and maintenanceStatus to their initial values
\* (0.02, 0.01, 280, 90, Good).
C12_ResetRestoresMotor ==
    ret.op = "ResetMotorState" =>
        /\ motor.bearingWear = 20000
        /\ motor.oilDegradation = 10000
        /\ motor.operatingHours = 280000
        /\ motor.systemHealth = 90
        /\ motor.maintenanceStatus = 0

\* The indexed accessors of the three collections
MachineOps == MachineInfos \cup MachineReadings
EdgeOps == {a.op : a \in EdgeInfos \cup EdgeReadings}
ModelOps == {a.op : a \in MLInfos \cup MLReadings}

\* index < 0 or index >= the count of the collection the accessor reads
OutOfRange(op, index) ==
    \/ index < 0
    \/ op \in MachineOps /\ index >= 17
    \/ op \in EdgeOps /\ index >= 9
    \/ op \in ModelOps /\ index >= 6

\* The documented sentinels: 0, 0.0, false, "UNKNOWN", "Unknown Machine",
\* "Unknown Node", "Unknown Model"
StatedSentinel(op) ==
    CASE op = "id"               -> <<"UNKNOWN">>
      [] op = "name"             -> <<"Unknown Machine">>
      [] op = "isRunning"        -> FALSE
      [] op = "GetEdgeNodeId"    -> <<"UNKNOWN">>
      [] op = "GetEdgeNodeName"  -> <<"Unknown Node">>
      [] op = "GetMLModelId"     -> "UNKNOWN"
      [] op = "GetMLModelName"   -> "Unknown Model"
      [] OTHER                   -> 0

\* The step leaves the registry as it was; on a registry that was never
\* populated it leaves the seeds of the call's initialization
RegistryUntouched ==
    IF systemInitialized
    THEN /\ industrialMachines' = industrialMachines
         /\ edgeNodes' = edgeNodes
         /\ mlModels' = mlModels
    ELSE /\ \E wh \in BOOLEAN : industrialMachines' = SeededMachines(wh)
         /\ edgeNodes' = SeededEdgeNodes
         /\ mlModels' = SeededMLModels

\* C13: for every indexed accessor of machines, edge nodes and ML models, an
\* index < 0 or >= the collection's count returns the sentinel (0, 0.0, false,
\* "UNKNOWN", "Unknown Machine" / "Unknown Node" / "Unknown Model"), runs no
\* physics, edge or ML update and leaves the whole registry state unchanged.
C13_OutOfRangeSentinel ==
    [][(/\ eret'.op \in MachineOps \cup EdgeOps \cup ModelOps
        /\ OutOfRange(eret'.op, eret'.index))
          => /\ eret'.value = StatedSentinel(eret'.op)
             /\ eret'.called = {}
             /\ RegistryUntouched]_vars

\* C13 case: an edge-node reading is asked for index 9, one past the end,
\* after a call that updated the first node
C13_PastTheEndAfterUpdate ==
    /\ eret.op = "GetEdgeNodeCpuUsage"
    /\ eret.index = 9
    /\ edgeNodes[1].lastSync = 1

\* C14: single-motor engine: GetMachineRunning(index) and
\* GetMachineLoad(index) return the sentinel (false, 0) for index -1 and for
\* index = GetIndustrialMachineCount(), in every reachable state.
C14_MotorIndexSentinel ==
    (ret.op = "get" /\ ret.index \in {-1, motor.machineCount})
        => IF ret.field = "isRunning" THEN ret.value = FALSE ELSE ret.value = 0

\* The calls that may change a stopped machine
ChangesStopped == {"StartMachine", "SetMachineTargetSpeed", "ResetMotorState"}

\* C15: while a machine's run flag is false, no accessor or system-aggregate
\* call changes any field of that machine; only StartMachine,
\* SetMachineTargetSpeed and ResetMotorState can change a stopped machine.  (A
\* machine seeded stopped by the call's own initialization keeps its seeds.)
C15_StoppedMachineFrozen ==
    [][eret'.op \notin ChangesStopped =>
          IF systemInitialized
          THEN \A i \in DOMAIN industrialMachines :
                  ~industrialMachines[i].isRunning
                      => industrialMachines'[i] = industrialMachines[i]
          ELSE \E wh \in BOOLEAN :
                  \A i \in DOMAIN industrialMachines' :
                      ~SeededMachines(wh)[i].isRunning
                          => industrialMachines'[i] = SeededMachines(wh)[i]]_vars

\* C15 case: GetSystemHealthScore has called updateMachinePhysics on every
\* machine while a backup generator was stopped and the main motor, updated
\* earlier, had been stopped
C15_AggregateOverStopped ==
    /\ eret.op = "GetSystemHealthScore"
    /\ 10 \in eret.called
    /\ ~MachineAt(10).isRunning
    /\ ~MachineAt(0).isRunning
    /\ MachineAt(0).operatingHours > 0

\* The machines a call starts from: the registry, or on a registry that was
\* never populated the seeds of the call's initialization
MachinesBefore ==
    IF systemInitialized THEN {industrialMachines}
    ELSE {SeededMachines(wh) : wh \in BOOLEAN}

\* The step leaves the edge nodes and ML models as the call found them
NodesAndModelsKept ==
    /\ edgeNodes' = IF systemInitialized THEN edgeNodes ELSE SeededEdgeNodes
    /\ mlModels' = IF systemInitialized THEN mlModels ELSE SeededMLModels

\* C16: StartMachine(i) / StopMachine(i) with a valid index change only
\* machine i's run flag, SetMachineTargetSpeed(i, v) changes only machine i's
\* targetSpeed (currentSpeed is not changed by the call itself), and all three
\* are no-ops on the whole state for an out-of-range index.
C16_ControlCallsFrame ==
    [][/\ (eret'.op \in {"StartMachine", "StopMachine", "SetMachineTargetSpeed"}
           /\ (eret'.index < 0 \/ eret'.index >= 17))
             => RegistryUntouched
       /\ (eret'.op \in {"StartMachine", "StopMachine"}
           /\ eret'.index >= 0 /\ eret'.index < 17)
             => /\ NodesAndModelsKept
                /\ \E ms \in MachinesBefore :
                      industrialMachines'
                          = [ms EXCEPT ![eret'.index + 1].isRunning
                                            = (eret'.op = "StartMachine")]
       /\ (eret'.op = "SetMachineTargetSpeed" /\ eret'.index >= 0 /\ eret'.index < 17)
             => /\ NodesAndModelsKept
                /\ \E ms \in MachinesBefore, v \in TargetSpeeds :
                      industrialMachines' = [ms EXCEPT ![eret'.index + 1].targetSpeed = v]]_vars

\* C16 case: SetMachineTargetSpeed(0, 3000) has been called on the main motor
\* after an update of it and after a backup generator was started
C16_TargetSetAfterUpdate ==
    /\ eret.op = "SetMachineTargetSpeed"
    /\ eret.index = 0
    /\ MachineAt(0).targetSpeed = 3000000
    /\ MachineAt(0).currentSpeed # 3000000
    /\ MachineAt(0).operatingHours > 0
    /\ MachineAt(10).isRunning

\* The set-point stage 7 steers machine i to in the step: the target plus the
\* load response of the load the step found, minus the temperature and
\* efficiency responses of the values the step's earlier stages stored
SetPointOf(i) ==
    industrialMachines[i + 1].targetSpeed
        + (industrialMachines[i + 1].load - 700) * 300
        - Quot((industrialMachines'[i + 1].temperature - 65000) * 3, 2)
        - (industrialMachines'[i + 1].efficiency - 90000) * 2

\* The main motor is updated by the step, with targetSpeed 3000 set before it
TickAtTarget3000 ==
    /\ systemInitialized
    /\ 0 \in eret'.updated
    /\ MachineAt(0).targetSpeed = 3000000

\* C17 as stated: for a running machine i, after SetMachineTargetSpeed(i, 3000),
\* every physics tick keeps currentSpeed within [0.7 * 3000, 1.3 * 3000] and
\* the distance |currentSpeed - 3000| never increases from one tick to the next.
C17_DistanceToTargetNeverIncreases ==
    [][TickAtTarget3000
          => /\ 2100000 <= industrialMachines'[1].currentSpeed
             /\ industrialMachines'[1].currentSpeed <= 3900000
             /\ Abs(industrialMachines'[1].currentSpeed - 3000000)
                   <= Abs(MachineAt(0).currentSpeed - 3000000)]_vars

\* C17 amended: every such tick keeps currentSpeed within [2100, 3900], and
\* unless it ends on a clamp bound it moves currentSpeed toward the set-point
\* 3000 + (load - 0.7) * 300 - (temperature - 65) * 1.5 - (efficiency - 90) * 2
\* of that tick: the distance to the set-point never increases in a tick.
C17_DistanceToSetPointNeverIncreases ==
    [][TickAtTarget3000
          => /\ 2100000 <= industrialMachines'[1].currentSpeed
             /\ industrialMachines'[1].currentSpeed <= 3900000
             /\ \/ industrialMachines'[1].currentSpeed \in {2100000, 3900000}
                \/ Abs(industrialMachines'[1].currentSpeed - SetPointOf(0))
                      <= Abs(MachineAt(0).currentSpeed - SetPointOf(0))]_vars

\* C17 case: with targetSpeed 3000 a tick has taken the main motor from the
\* 3000.2 rpm an earlier target's clamp left it at further above 3000
C17_MovedPastTarget ==
    /\ 0 \in eret.updated
    /\ MachineAt(0).targetSpeed = 3000000
    /\ MachineAt(0).currentSpeed > 3000200
    /\ MachineAt(0).currentSpeed < 3900000

---------------------------------------------------------------------------
(* Claims about the stratified readings of the single-motor engine         *)

\* The band of the temperature resample a value t lies in
TemperatureBand(t) ==
    IF 60000 <= t /\ t < 80000 THEN 1
    ELSE IF 80000 <= t /\ t < 90000 THEN 2
    ELSE IF 90000 <= t /\ t <= 95000 THEN 3
    ELSE 0

\* The selectors whose temperature, with the other draws as in gen, lies in band b
SelectorsOfBand(b) ==
    {s \in 0..99 :
        TemperatureBand(CalculateTemperature(motor, [gen EXCEPT !.tempDistribution = s]).temperature) = b}

\* C18: the stored temperature is always in [60, 95]; of the selector values
\* 0..99 exactly 70 map to [60, 80), exactly 20 to [80, 90) and exactly 10 to
\* [90, 95]: selectors below 70, from 70 to 89, and from 90.
C18_TemperatureBands ==
    ret.op \in {"CalculateTemperature", "UpdateMotorPhysics"}
        => /\ 60000 <= motor.temperature /\ motor.temperature <= 95000
           /\ TemperatureBand(motor.temperature)
                 = IF gen.tempDistribution % 100 < 70 THEN 1
                   ELSE IF gen.tempDistribution % 100 < 90 THEN 2 ELSE 3
           /\ Cardinality(SelectorsOfBand(1)) = 70
           /\ Cardinality(SelectorsOfBand(2)) = 20
           /\ Cardinality(SelectorsOfBand(3)) = 10

\* C18 case: CalculateTemperature ran with selector 89 and the largest
\* resample and stored 89.9, the top of the second band
C18_TopOfSecondBand ==
    /\ ret.op = "CalculateTemperature"
    /\ gen.tempDistribution = 89
    /\ motor.temperature = 89900

\* Draws that agree with gen at the stratification call sites of temperature
\* and efficiency and take the other call sites from d
WithStrataOf(d) ==
    [d EXCEPT !.tempDistribution = gen.tempDistribution,
              !.tempResample = gen.tempResample,
              !.effDistribution = gen.effDistribution,
              !.effResample = gen.effResample]

\* Draws that differ from one another away from those call sites
OtherDraws == MotorDraws \cup TemperatureDraws \cup EfficiencyDraws

\* C19: the stored temperature and efficiency depend only on their
\* stratification draws (selector and resample): with the same four draws any
\* prior motor state and any other draws of the pass give the same two values.
C19_OnlyStratificationDraws ==
    /\ ret.op \in {"CalculateTemperature", "UpdateMotorPhysics"}
          => \A m \in PriorMotors, d \in OtherDraws :
                CalculateTemperature(m, WithStrataOf(d)).temperature = motor.temperature
    /\ ret.op \in {"CalculateEfficiency", "UpdateMotorPhysics"}
          => \A m \in PriorMotors, d \in OtherDraws :
                CalculateEfficiency(m, WithStrataOf(d)).efficiency = motor.efficiency
    /\ ret.op = "UpdateMotorPhysics"
          => \A m \in PriorMotors, d \in MotorDraws :
                /\ PhysicsPass(m, WithStrataOf(d), 7200).temperature = motor.temperature
                /\ PhysicsPass(m, WithStrataOf(d), 7200).efficiency = motor.efficiency

\* C19 case: CalculateEfficiency ran on a motor that a pass had moved off its
\* seeds, in the fourth efficiency scenario, and stored the top of the second band
C19_EfficiencyOffSeeds ==
    /\ ret.op = "CalculateEfficiency"
    /\ gen.effScenario = 3
    /\ gen.effDistribution = 70
    /\ motor.speed # BASE_SPEED
    /\ motor.temperature # BASE_TEMPERATURE
    /\ motor.efficiency = 79990

\* The sum of the squares of the three stored axis values
AxisSquares ==
    motor.vibrationX * motor.vibrationX + motor.vibrationY * motor.vibrationY
        + motor.vibrationZ * motor.vibrationZ

---------------------------------------------------------------------------
(* Claims about health, feedback and frames                                *)

\* The vibration band as C21 states it, in 1/1000 %
StatedVibrationHealth ==
    IF motor.vibration < 2800 THEN 100000
    ELSE IF motor.vibration < 7100 THEN 100000 - (motor.vibration - 2800) * 8
    ELSE 0

\* The temperature band as C21 states it, in 1/1000 %
StatedTemperatureHealth ==
    IF motor.temperature < 70000 THEN 100000
    ELSE IF motor.temperature < 85000 THEN 100000 - (motor.temperature - 70000) * 2
    ELSE IF motor.temperature < 95000 THEN 70000 - (motor.temperature - 85000) * 4
    ELSE 0

\* The weighted sum of C21 in units of 1/2000000 %, without rounding; its
\* bearing and oil components are 100 - 50 * bearingWear and
\* 100 - 50 * oilDegradation
StatedHealthSum ==
    800 * motor.efficiency + 500 * StatedVibrationHealth + 400 * StatedTemperatureHealth
        + 2 * (10000000 - 5 * motor.bearingWear) + (10000000 - 5 * motor.oilDegradation)

\* C21: after every pass systemHealth = trunc(clamp(efficiency * 0.40 +
\* vibrationHealth * 0.25 + temperatureHealth * 0.20 + bearingHealth * 0.10 +
\* oilHealth * 0.05, 0, 100)) with the stated bands of vibrationHealth and
\* temperatureHealth, and systemHealth is an integer in [0, 100].
C21_SystemHealthIsWeightedSum ==
    elapsed > 0
        => /\ motor.systemHealth = Quot(Clamp(0, 200000000, StatedHealthSum), 2000000)
           /\ motor.systemHealth \in 0..100

\* C21 case: GetSystemHealth returned after a pass that left the temperature
\* in the band that loses 4 per degree
C21_HealthReadWhenHot ==
    /\ ret.op = "get"
    /\ ret.field = "systemHealth"
    /\ ret.value = motor.systemHealth
    /\ motor.temperature >= 85000
    /\ motor.systemHealth < 100

\* The core state of C22
CoreFields ==
    { "speed", "temperature", "load", "efficiency", "vibration", "bearingWear",
      "oilDegradation", "operatingHours" }

\* The motor with one field away from the core state given another value
Differing(f) ==
    [motor EXCEPT ![f] = IF f = "isRunning" THEN ~motor.isRunning ELSE motor[f] + 1000]

\* The core state of motor state m
CoreOf(m) == [f \in CoreFields |-> m[f]]

\* C22: derived fields never feed back into core state: a pass from a motor
\* that differs in any one field outside the core state (torque, pressures,
\* daily-life metrics, systemHealth, maintenanceStatus, ...), with the same
\* draws and clock value, leaves the same core state as the pass taken.
C22_NoFeedbackFromDerived ==
    [][ret'.op = "UpdateMotorPhysics"
          => \A f \in MotorFields \ CoreFields :
                CoreOf(PhysicsPass(Differing(f), gen', 3600)) = CoreOf(motor')]_vars

\* C22 case: a full pass ran on a motor that an earlier pass had moved off
\* the seeds: its wear is above what the same pass leaves from the seeds
C22_PassAfterEarlierPass ==
    /\ ret.op = "UpdateMotorPhysics"
    /\ motor.bearingWear > PhysicsPass(SeededMotor, gen, 3600).bearingWear
    /\ motor.torque # SeededMotor.torque
    /\ motor.systemHealth < 100

\* The accessors that call updateEdgeNodePerformance
EdgeReadingOps ==
    { "GetEdgeNodeCpuUsage", "GetEdgeNodeMemoryUsage", "GetEdgeNodeNetworkLatency",
      "GetEdgeNodeProcessingTime" }

\* The backup edge node, the last of the nine, is offline with its stored
\* cpuUsage, memoryUsage, networkLatency and processingTime at 0
BackupNodeAtZero ==
    /\ Len(edgeNodes) = 9
    /\ edgeNodes[9].id = <<"EDGE-BACKUP-001">>
    /\ ~edgeNodes[9].isOnline
    /\ edgeNodes[9].cpuUsage = 0
    /\ edgeNodes[9].memoryUsage = 0
    /\ edgeNodes[9].networkLatency = 0
    /\ edgeNodes[9].processingTime = 0

\* C23: in every state of a populated registry the backup edge node is
\* offline with its four stored metrics at 0, no call brings it online or
\* changes them, while an online node is updated on every call of an edge
\* accessor of its metrics (GetEdgeNodeCpuUsage ... GetEdgeNodeProcessingTime)
\* with its index: the call stamps lastSync and stores the four metrics anew,
\* each within its clamp.
C23_OfflineNodeFrozen ==
    [][/\ systemInitialized' => BackupNodeAtZero'
       /\ (eret'.op \in EdgeReadingOps /\ eret'.index >= 0 /\ eret'.index < 8)
             => /\ edgeNodes'[eret'.index + 1].isOnline
                /\ edgeNodes'[eret'.index + 1].lastSync = 1
                /\ edgeNodes'[eret'.index + 1].cpuUsage \in 20000..90000
                /\ edgeNodes'[eret'.index + 1].memoryUsage \in 30000..95000
                /\ edgeNodes'[eret'.index + 1].networkLatency \in 5000..50000
                /\ edgeNodes'[eret'.index + 1].processingTime \in 20000..150000]_vars

\* C23 case: GetEdgeNodeCpuUsage was called on the backup node after an
\* online node had been updated
C23_BackupNodeRead ==
    /\ systemInitialized
    /\ eret.op = "GetEdgeNodeCpuUsage"
    /\ eret.index = 8
    /\ edgeNodes[1].lastSync = 1
    /\ edgeNodes[9].lastSync = 0

\* The accessors that call updateMLModelPredictions
MLReadingOps ==
    { "GetMLModelAccuracy", "GetMLModelConfidence", "GetMLModelFailureProbability",
      "GetMLModelRemainingUsefulLife" }

\* clamp((100 - mean healthScore over all machines) * 0.2, 0, 15) of the
\* machines the step leaves, in 1/1000 %
StatedFailureProbability ==
    Clamp(0, 15000,
          Quot((100000 - Quot(SumOver(industrialMachines', "healthScore", 0..16), 17)) * 2, 10))

\* C24: after a call of an ML accessor that updates model m (accuracy,
\* confidence, failure probability, remaining useful life), m's stored
\* failureProbability equals clamp((100 - mean healthScore over all
\* machines) * 0.2, 0, 15); it depends neither on the random walk nor on the
\* previous failureProbability, so any model updated against the same
\* machines, with any draws, holds the same failureProbability.
C24_FailureProbabilityFromFleetHealth ==
    [][(eret'.op \in MLReadingOps /\ eret'.index >= 0 /\ eret'.index < 6)
          => /\ mlModels'[eret'.index + 1].failureProbability = StatedFailureProbability
             /\ \A j \in 1..6, d \in MLDraws :
                   updateMLModelPredictions(mlModels'[j], 1,
                                            AverageHealth(industrialMachines'), d).failureProbability
                       = mlModels'[eret'.index + 1].failureProbability]_vars

\* C24 case: GetMLModelFailureProbability(0) was called after an update of
\* the main motor; the stored value has left the seed 1.8
C24_FailureProbabilityAfterUpdate ==
    /\ eret.op = "GetMLModelFailureProbability"
    /\ eret.index = 0
    /\ MachineAt(0).operatingHours > 0
    /\ mlModels[1].predictionCount = 1
    /\ mlModels[1].failureProbability # 1800

\* The run flag machine i (from 1) is seeded with when isWorkingHours() is wh
SeededRunFlag(i, wh) ==
    IF i = 1 THEN TRUE
    ELSE IF industrialMachines'[i].type = MACHINE_TYPE_GENERATOR THEN FALSE
    ELSE wh

\* C25: right after initialization the primary motor (index 0) is running,
\* both backup generators are stopped and every other machine's run flag
\* equals the value of isWorkingHours() (weekday Mon..Fri and hour in [8, 18))
\* at initialization, but for the flag a StartMachine / StopMachine that
\* initialized has set; afterwards run flags change only through
\* StartMachine / StopMachine on that machine.
C25_RunFlagsSeededThenSwitched ==
    [][/\ (~systemInitialized /\ systemInitialized')
             => /\ \A day \in 0..6, hour \in 0..23 :
                      isWorkingHours(day, hour) = (day \in 1..5 /\ hour \in 8..17)
                /\ Cardinality({i \in 1..17 :
                       industrialMachines'[i].type = MACHINE_TYPE_GENERATOR}) = 2
                /\ \E wh \in BOOLEAN : \A i \in 1..17 :
                      \/ industrialMachines'[i].isRunning = SeededRunFlag(i, wh)
                      \/ /\ eret'.op \in {"StartMachine", "StopMachine"}
                         /\ eret'.index = i - 1
                         /\ industrialMachines'[i].isRunning = (eret'.op = "StartMachine")
       /\ systemInitialized
             => \A i \in 1..17 :
                   industrialMachines'[i].isRunning # industrialMachines[i].isRunning
                      => /\ eret'.op \in {"StartMachine", "StopMachine"}
                         /\ eret'.index = i - 1]_vars

\* C25 case: the registry was seeded outside working hours and a machine was
\* updated; the clock now shows working hours and the first pump is still stopped
C25_ClockTurnedAfterSeeding ==
    /\ eret.op = "GetIsWorkingHours"
    /\ eret.value = TRUE
    /\ systemInitialized
    /\ ~MachineAt(1).isRunning
    /\ MachineAt(0).isRunning
    /\ MachineAt(0).operatingHours > 0

\* C26: with two threads calling accessors concurrently and no lock, a
\* thread that has read physicsUpdatedThisReading as false runs the full
\* physics pass when it gets to it, whether or not the other thread has run
\* its pass and set the flag since; so both threads can run the pass in one
\* tick and two accessors of a tick can return values of different passes.
C26_StaleReadStillPasses ==
    [][\A t \in Threads :
          (threads[t].pc = "pass" /\ threads'[t].pc = "return")
             => /\ passes' = passes + 1
                /\ physicsUpdatedThisReading'
                /\ elapsed' > elapsed]_vars

\* C26 case: both threads read the flag as false, both ran the pass in the
\* same tick, and their two reads of the temperature returned different values
C26_TwoPassesInOneTick ==
    /\ passes = 2
    /\ \A t \in Threads : threads[t].pc = "idle" /\ threads[t].field = "temperature"
    /\ threads[1].tick = ticks
    /\ threads[2].tick = ticks
    /\ threads[1].value # threads[2].value

\* What stages 1 to 4 of an update leave of machine pre, given the machine
\* post the whole update leaves: the hours, wear, oil and temperature of this
\* call, everything else from before the call
AfterTemperature(pre, post) ==
    [pre EXCEPT !.operatingHours = post.operatingHours,
                !.bearingWear = post.bearingWear,
                !.oilDegradation = post.oilDegradation,
                !.temperature = post.temperature]

\* What stages 1 to 6 leave: also the efficiency and vibration of this call
AfterVibration(pre, post) ==
    [AfterTemperature(pre, post) EXCEPT !.efficiency = post.efficiency,
                                        !.vibration = post.vibration]

\* The update took machine pre to machine post in the order of C27
StagedUpdate(pre, post) ==
    /\ post.operatingHours = pre.operatingHours + 1
    /\ post.bearingWear = pre.bearingWear
                            + WearIncrement([pre EXCEPT !.operatingHours = post.operatingHours], 1)
    /\ post.oilDegradation = pre.oilDegradation + OilIncrement(pre, 1)
    /\ \E sf \in SeasonalFactors :
          /\ post.temperature
                = NextTemperature([pre EXCEPT !.bearingWear = post.bearingWear,
                                              !.oilDegradation = post.oilDegradation], 1, sf)
          /\ post.load = NextLoad([AfterVibration(pre, post) EXCEPT
                                      !.currentSpeed = post.currentSpeed], sf)
    /\ post.efficiency = NextEfficiency(AfterTemperature(pre, post))
    /\ post.vibration = NextVibration([AfterTemperature(pre, post) EXCEPT
                                          !.efficiency = post.efficiency])
    /\ post.currentSpeed = NextSpeed(AfterVibration(pre, post), 1)
    /\ post.powerConsumption = NextPower(post)
    /\ post.healthScore = NextHealthScore(post)
    /\ post.maintenanceStatus = NextMaintenanceStatus(post)

\* C27: within one update of a running machine the stages run in the order
\* hours, wear, oil, temperature, efficiency, vibration, speed, load, power,
\* health, status, each reading what earlier stages of the same call wrote:
\* efficiency uses the temperature of this call and the load from before it,
\* speed and load use the temperature and efficiency of this call, and
\* healthScore and maintenanceStatus equal their formulas on the machine's
\* post-update wear, oil, temperature, vibration, efficiency and hours.
C27_StagesInOrder ==
    [][\A i \in eret'.updated :
          \E ms \in MachinesBefore :
             StagedUpdate(ms[i + 1], industrialMachines'[i + 1])]_vars

\* C27 case: the main motor was updated a second time, with a target speed
\* set between the updates, from a load and temperature off their seeds
C27_SecondUpdateAtNewTarget ==
    /\ 0 \in eret.updated
    /\ MachineAt(0).operatingHours = 2
    /\ MachineAt(0).targetSpeed = 3000000
    /\ MachineAt(0).load # 700
    /\ MachineAt(0).temperature # 65000

\* C28: every indexed machine accessor call (speed, temperature, load,
\* efficiency, power, vibration, health, maintenance status) with a valid
\* index i on a running machine runs exactly one update of machine i with a
\* step of 1 second (operatingHours, kept here in seconds, grows by exactly 1)
\* and leaves every other machine, every edge node and every ML model as the
\* call found them; nothing coalesces calls, so each further call adds another
\* second.
C28_OneSecondPerAccessorCall ==
    [][(/\ eret'.op \in MachineReadings
        /\ eret'.index >= 0 /\ eret'.index < 17)
          => /\ NodesAndModelsKept
             /\ \E ms \in MachinesBefore :
                   /\ \A j \in 1..17 :
                         j # eret'.index + 1 => industrialMachines'[j] = ms[j]
                   /\ ms[eret'.index + 1].isRunning
                         => /\ industrialMachines'[eret'.index + 1].operatingHours
                                  = ms[eret'.index + 1].operatingHours + 1
                            /\ eret'.updated = {eret'.index}]_vars

\* C28 case: two accessor calls in a row on the main motor, two seconds on
C28_TwoCallsTwoSeconds ==
    /\ eret.op \in MachineReadings
    /\ eret.index = 0
    /\ budget = MaxIndexedCalls - 2
    /\ MachineAt(0).operatingHours = SeededMachines(TRUE)[1].operatingHours + 2

---------------------------------------------------------------------------
(* Claims about wear in the long run and the run flag                      *)

\* Passes of the long run made so far: the clock is one second further at
\* every pass, so the seconds on it count them
PassesSinceInitialization == elapsed

\* C29: bearingWear strictly increases on every physics pass until it reaches
\* 1.0, it is 1.0 after at most 41 passes from initialization, from then on it
\* stays at 1.0 with bearingHealth 0, and no operation, ResetMotorState
\* included, lowers bearingWear, oilDegradation or operatingHours.
C29_WearGrowsToOneAndStays ==
    [][/\ passes' = passes + 1
          => \/ motor'.bearingWear > motor.bearingWear
             \/ motor.bearingWear = 1000000
       /\ PassesSinceInitialization' >= 41
          => motor'.bearingWear = 1000000 /\ motor'.bearingHealth = 0
       /\ motor.bearingWear = 1000000
          => motor'.bearingWear = 1000000 /\ motor'.bearingHealth = 0
       /\ motor'.bearingWear >= motor.bearingWear
       /\ motor'.oilDegradation >= motor.oilDegradation
       /\ motor'.operatingHours >= motor.operatingHours]_vars

\* C29 case: ResetMotorState called on a motor worn to 1.0 at the operating
\* point with the smallest wear terms, the operating hours past their seed
C29_ResetOfWornMotor ==
    /\ ret.op = "ResetMotorState"
    /\ gen.scenario = 3
    /\ motor.bearingWear = 1000000
    /\ motor.bearingHealth = 0
    /\ motor.operatingHours > 280000

\* The calls that run UpdateMotorPhysics() first
PassingCalls == {"get", "StartMotor", "StopMotor", "TestEngine"}

===========================================================================
